---- MODULE Spec2Model ----
(***************************************************************************)
(* A model of the resilient client of comx-api: the authenticated module   *)
(* client (src/modules/client/mod.rs), the JSON-RPC client                 *)
(* (src/rpc/rpc_client.rs) and its batch entry point.                      *)
(*                                                                         *)
(* Asynchronous functions are split at their suspension points (the        *)
(* transport send and the backoff sleep); everything between two           *)
(* suspension points is one action.  The remote side and the transport are *)
(* the environment: each attempt receives one outcome drawn from a small   *)
(* set.                                                                    *)
(***************************************************************************)
EXTENDS Integers, Sequences, FiniteSets, TLC

(***************************************************************************)
(* Bounds of the model.                                                    *)
(***************************************************************************)
\* largest configured max_retries explored (ModuleClientConfig, RpcClientConfig)
MaxRetriesBound == 3
\* largest number of requests added to one batch
MaxBatch == 3
\* largest number of elements in the wire response to a batch
MaxWireLen == 3
\* longest wire array answered to send_batch_request, batch_balance_request
\* and get_balances
MaxShortWire == 2
\* latest instant of the cache's clock
MaxTime == 3
\* largest number of get and set calls made on one cache
MaxCacheOps == 3
\* largest number of handler calls after which the refresh task still scans
MaxRefreshes == 2
\* longest list of freely chosen transfers given to batch_transfer
MaxTransfers == 2
\* longest timeout, in seconds, given to wait_for_transaction
MaxTimeout == 4

(***************************************************************************)
(* Option<T> and Result<T, E>.                                             *)
(***************************************************************************)
None == [none |-> TRUE]
Some(v) == [some |-> v]
Ok(v) == [ok |-> v]
Err(e) == [err |-> e]
IsOk(r) == DOMAIN r = {"ok"}
IsErr(r) == DOMAIN r = {"err"}

(***************************************************************************)
(* ModuleClient: configuration, endpoint registry, and the inputs of call. *)
(***************************************************************************)
\* ModuleClientConfig::default(): timeout in seconds, port, max_retries
DefaultTimeoutSecs == 30
DefaultPort == 5555
DefaultMaxRetries == 3
\* the base of the backoff, in ms (calculate_backoff, execute_with_retry)
BaseDelayMs == 100

Methods == {"test_method", "other_method"}
TargetKeys == {"test_key"}
\* params: a value that serializes, and one serde_json::to_string rejects
Params == {"params", "unserializable"}
Hosts == {"http://h/"}
Ports == {0, DefaultPort}
\* HTTP statuses the remote may answer with
Statuses == {200, 201, 401, 404, 429, 500}

VARIABLES
    mc_config,          \* ModuleClient.config: [host, port, timeout, max_retries]
    endpoint_registry,  \* EndpointRegistry.endpoints: name -> None | Some(EndpointConfig)
    clock,              \* wall clock (Utc::now), in ms since construction
    mc_pc,              \* position of the one call: "idle", "attempt", "sleep", "done"
    mc_method,          \* call's method argument
    timestamp,          \* call's local timestamp: None | Some(ms)
    request,            \* the tuple built by build_request: [url, headers, body]
    max_retries,        \* call's local max_retries
    retry,              \* call's loop variable
    mc_last_error,      \* call's local last_error
    mc_result,          \* what call returned
    mc_sent,            \* transport log: [request, sent_at] per exchange
    mc_last_attempt,    \* the latest transport exchange: None | Some([outcome, result])
    mc_all_retryable,   \* every exchange so far failed with Timeout or ServerError
    mc_slept            \* the delays slept, in ms

mc_vars == <<mc_config, endpoint_registry, clock, mc_pc, mc_method, timestamp, request,
             max_retries, retry, mc_last_error, mc_result, mc_sent,
             mc_last_attempt, mc_all_retryable, mc_slept>>

\* the state of RpcClient and of its one request
VARIABLES
    rpc_config,       \* RpcClient.config: [max_retries]
    rpc_pc,           \* position of the one request: "idle", "attempt", "sleep", "done"
    attempts,         \* execute_with_retry's local attempts
    rpc_last_error,   \* execute_with_retry's local last_error
    rpc_result,       \* what request returned
    rpc_invocations,  \* number of times the wrapped operation was invoked
    rpc_last_attempt, \* the latest invocation: None | Some([outcome, result])
    rpc_slept,        \* the delays slept, in ms
    path_wire,        \* the transport outcome of request_with_path: None | Some(outcome)
    path_result       \* what request_with_path returned

rpc_vars == <<rpc_config, rpc_pc, attempts, rpc_last_error, rpc_result,
              rpc_invocations, rpc_last_attempt, rpc_slept, path_wire, path_result>>

\* the state of a BatchRequest and of its batch_request
VARIABLES
    batch,          \* BatchRequest.requests
    batch_pc,       \* "building", then "done" once the batch call has returned
    batch_sent,     \* transport log: the bodies posted by the batch call
    batch_wire,     \* the outcome of the transport exchange: None | Some(outcome)
    batch_result,   \* what batch_request returned, also when called by
                    \* batch_balance_request or get_balances
    batch_call,     \* the entry point called: None | Some(name)
    send_batch_result,  \* what send_batch_request returned
    balances        \* what QueryMap::get_balances returned

batch_vars == <<batch, batch_pc, batch_sent, batch_wire, batch_result,
                batch_call, send_batch_result, balances>>

\* the state of a QueryMapCache, of its callers and of its refresh task
VARIABLES
    cache_config,    \* QueryMapCache.config: [ttl, refresh_interval, max_entries]
    now,             \* Instant::now()
    entries,         \* QueryMapCache.entries: key -> None | Some([value, expires_at])
    metrics,         \* QueryMapCache.metrics
    refresh_handler, \* QueryMapCache.refresh_handler: None | Some(handler)
    callers,         \* the call each foreground task is in, with the locks it holds
    refresh,         \* the background refresh task: its position and its locals, and
                     \* through a scan the handler registered when the scan began
    cache_ops,       \* number of get and set calls begun since the initial state
    gets_done,       \* number of get calls that returned
    gets_some,       \* number of get calls that returned a value
    sets_made,       \* number of set calls that inserted
    returned,        \* what the get that has just returned gave its caller:
                     \* Some([key, result]), and None after any other step
    written,         \* per key, the latest set of it: None | Some([value, at, intact]),
                     \* intact until a refresh writes the key or a later set evicts it
    last_got         \* the latest get that returned, Some([key, result]), until a set
                     \* of its key; None before

cache_vars == <<cache_config, now, entries, metrics, refresh_handler, callers, refresh,
                cache_ops, gets_done, gets_some, sets_made, returned, written, last_got>>

\* the construction of a QueryMap
VARIABLES
    qm_config,       \* the QueryMapConfig given to QueryMap::new, in milliseconds
    qm_result        \* what QueryMap::new returned: None before the call

qm_vars == <<qm_config, qm_result>>

\* a call of WalletClient::batch_transfer
VARIABLES
    transfers,       \* the list of TransferRequest given to batch_transfer
    wallet_sent,     \* the parameters handed to rpc_client.request, in order
    wallet_result,   \* what batch_transfer returned: None before the call
    wait,            \* the call of wait_for_transaction: where it stands, its
                     \* timeout, the seconds since its start, its polls so far
                     \* and the answer to the latest
    wait_result      \* what wait_for_transaction returned: None before its return

wallet_vars == <<transfers, wallet_sent, wallet_result, wait, wait_result>>

\* what the operations of one component leave alone: the other components
mc_others == <<rpc_vars, batch_vars, cache_vars, qm_vars, wallet_vars>>
rpc_others == <<mc_vars, batch_vars, cache_vars, qm_vars, wallet_vars>>
batch_others == <<mc_vars, rpc_vars, cache_vars, qm_vars, wallet_vars>>
cache_others == <<mc_vars, rpc_vars, batch_vars, qm_vars, wallet_vars>>
qm_others == <<mc_vars, rpc_vars, batch_vars, cache_vars, wallet_vars>>
wallet_others == <<mc_vars, rpc_vars, batch_vars, cache_vars, qm_vars>>

\* host.trim_end_matches('/'): hosts are modelled by name, the trimmed form
\* of "http://h/" is "http://h"
TrimEndSlash(host) == IF host = "http://h/" THEN "http://h" ELSE host

\* the URL of build_request: host[:port]/method, as its segments
BuildUrl(cfg, method) ==
    IF cfg.port = 0
    THEN <<TrimEndSlash(cfg.host), method>>
    ELSE <<TrimEndSlash(cfg.host), cfg.port, method>>

\* serde_json::to_string(&request)
Serialize(req) ==
    IF req.params = "unserializable"
    THEN Err([kind |-> "SerializationError"])
    ELSE Ok(<<"json", req.target_key, req.params>>)

\* sign_request: hex of the signature of the message under the client's key
sign_request(message) == <<"hex", "sig", message>>

build_headers(signature, ts) ==
    [content_type |-> "application/json",
     x_signature  |-> signature,
     x_key        |-> <<"hex", "pubkey">>,
     x_timestamp  |-> <<"rfc3339", ts>>]

build_request(cfg, method, target_key, params, ts) ==
    LET req == [target_key |-> target_key, params |-> params]
        url == BuildUrl(cfg, method)
        message == Serialize(req)
    IN  IF IsErr(message)
        THEN message
        ELSE Ok([url     |-> url,
                 headers |-> build_headers(sign_request(message.ok), ts),
                 body    |-> req])

\* a call that takes the client's max_retries whatever the endpoint says
EffectiveMaxRetriesIgnoringEndpoint(cfg, endpoint_config) == cfg.max_retries

\* the max_retries local of call (mod.rs 76-78)
EffectiveMaxRetries(cfg, endpoint_config) ==
    IF endpoint_config = None
    THEN cfg.max_retries
    ELSE IF endpoint_config.some.allow_retries THEN cfg.max_retries ELSE 0

\* a policy that also retries a rate-limited call
should_retry_rate_limited(error) ==
    error.kind \in {"Timeout", "ServerError", "RateLimitExceeded"}

should_retry(error) == error.kind \in {"Timeout", "ServerError"}

\* a backoff whose exponent is the number of the coming attempt
calculate_backoff_next(r) == BaseDelayMs * 2^(r + 1)

calculate_backoff(r) == BaseDelayMs * 2^r

\* an attempt that stamps the headers again at send time
AttemptRequestRestamped(req) ==
    [req EXCEPT !.headers.x_timestamp = <<"rfc3339", clock>>]

\* what one attempt hands to the transport: clones of the built tuple
AttemptRequest(req) == req

\* the outcomes of one transport exchange: the send times out, fails
\* otherwise, or a response arrives whose body decodes as R or does not
McOutcomes ==
    {[type |-> "timeout"], [type |-> "send_error"]}
    \cup {[type |-> "response", status |-> s, decodable |-> TRUE] : s \in Statuses}
    \cup {[type |-> "response", status |-> 200, decodable |-> FALSE]}

\* the errors the retry policy names retryable: Timeout and ServerError
Retryable(error) == error.kind \in {"Timeout", "ServerError"}

\* the match on response.status() (mod.rs 117-125)
StatusResult(method, outcome) ==
    CASE outcome.status = 200 ->
            IF outcome.decodable THEN Ok("response")
            ELSE Err([kind |-> "RequestFailed", info |-> "decode"])
      [] outcome.status = 401 -> Err([kind |-> "Unauthorized"])
      [] outcome.status = 429 -> Err([kind |-> "RateLimitExceeded"])
      [] outcome.status = 404 -> Err([kind |-> "MethodNotFound", info |-> method])
      [] OTHER -> Err([kind |-> "ServerError", info |-> outcome.status])

execute_request(cfg, method, outcome) ==
    CASE outcome.type = "timeout" -> Err([kind |-> "Timeout", info |-> cfg.timeout])
      [] outcome.type = "send_error" -> Err([kind |-> "RequestFailed", info |-> "send"])
      [] OTHER -> StatusResult(method, outcome)

\* an exit test that gives up one attempt early
LastAttemptEarly(r, max) == r + 1 >= max

\* the exit test of the retry loop (mod.rs 84)
LastAttempt(r, max) == r = max

\* ModuleClient::with_config(config, keypair), config drawn from configs
McInitWith(configs) ==
    /\ mc_config \in configs
    /\ endpoint_registry = [m \in Methods |-> None]
    /\ clock = 0
    /\ mc_pc = "idle"
    /\ mc_method = None
    /\ timestamp = None
    /\ request = None
    /\ max_retries = 0
    /\ retry = 0
    /\ mc_last_error = None
    /\ mc_result = None
    /\ mc_sent = <<>>
    /\ mc_last_attempt = None
    /\ mc_all_retryable = TRUE
    /\ mc_slept = <<>>

McConfigs ==
    [host : Hosts, port : Ports, timeout : {DefaultTimeoutSecs},
     max_retries : 0..MaxRetriesBound]

McInit == McInitWith(McConfigs)

\* ModuleClient::new(keypair): ModuleClientConfig::default()
McDefault ==
    McInitWith([host : Hosts, port : {DefaultPort}, timeout : {DefaultTimeoutSecs},
                max_retries : {DefaultMaxRetries}])

\* ModuleClient::register_endpoint -> EndpointRegistry::register
register_endpoint(name, allow) ==
    /\ mc_pc = "idle"
    /\ endpoint_registry' =
         [endpoint_registry EXCEPT ![name] = Some([name |-> name, allow_retries |-> allow])]
    /\ UNCHANGED <<mc_config, clock, mc_pc, mc_method, timestamp, request, max_retries, retry,
                   mc_last_error, mc_result, mc_sent, mc_last_attempt,
                   mc_all_retryable, mc_slept, mc_others>>

\* call, up to the first transport send (mod.rs 59-80)
call_begin(method, target_key, params) ==
    /\ mc_pc = "idle"
    /\ LET built == build_request(mc_config, method, target_key, params, clock)
       IN  /\ mc_method' = Some(method)
           /\ timestamp' = Some(clock)
           /\ IF IsErr(built)
              THEN /\ mc_pc' = "done"
                   /\ mc_result' = built
                   /\ UNCHANGED <<request, max_retries>>
              ELSE /\ mc_pc' = "attempt"
                   /\ request' = Some(built.ok)
                   /\ max_retries' = EffectiveMaxRetries(mc_config, endpoint_registry[method])
                   /\ UNCHANGED mc_result
    /\ UNCHANGED <<mc_config, endpoint_registry, clock, retry, mc_last_error,
                   mc_sent, mc_last_attempt, mc_all_retryable, mc_slept, mc_others>>

\* one iteration of the loop up to its sleep (mod.rs 81-88)
call_attempt(outcome) ==
    /\ mc_pc = "attempt"
    /\ LET res == execute_request(mc_config, mc_method.some, outcome)
       IN  /\ mc_sent' = Append(mc_sent, [request |-> AttemptRequest(request.some),
                                           sent_at |-> clock])
           /\ mc_last_attempt' = Some([outcome |-> outcome, result |-> res])
           /\ mc_all_retryable' = (mc_all_retryable /\ IsErr(res) /\ Retryable(res.err))
           /\ IF IsOk(res)
              THEN /\ mc_pc' = "done"
                   /\ mc_result' = res
                   /\ UNCHANGED mc_last_error
              ELSE IF LastAttempt(retry, max_retries) \/ ~should_retry(res.err)
              THEN /\ mc_pc' = "done"
                   /\ mc_result' = res
                   /\ UNCHANGED mc_last_error
              ELSE /\ mc_pc' = "sleep"
                   /\ mc_last_error' = Some(res.err)
                   /\ UNCHANGED mc_result
    /\ UNCHANGED <<mc_config, endpoint_registry, clock, mc_method, timestamp, request,
                   max_retries, retry, mc_slept, mc_others>>

\* the backoff sleep and the step of the loop (mod.rs 80, 88, 93)
call_backoff ==
    /\ mc_pc = "sleep"
    /\ mc_slept' = Append(mc_slept, calculate_backoff(retry))
    /\ clock' = clock + calculate_backoff(retry)
    /\ retry' = retry + 1
    /\ IF retry + 1 <= max_retries
       THEN /\ mc_pc' = "attempt"
            /\ UNCHANGED mc_result
       ELSE /\ mc_pc' = "done"
            /\ mc_result' = IF mc_last_error = None
                            THEN Err([kind |-> "Unknown"])
                            ELSE Err(mc_last_error.some)
    /\ UNCHANGED <<mc_config, endpoint_registry, mc_method, timestamp, request,
                   max_retries, mc_last_error, mc_sent, mc_last_attempt,
                   mc_all_retryable, mc_others>>

McNext ==
    \/ \E name \in Methods, allow \in BOOLEAN : register_endpoint(name, allow)
    \/ \E m \in Methods, k \in TargetKeys, p \in Params : call_begin(m, k, p)
    \/ \E o \in McOutcomes : call_attempt(o)
    \/ call_backoff

(***************************************************************************)
(* serde_json::Value: null, numbers, strings and objects (a function from  *)
(* the member names present to their values).                              *)
(***************************************************************************)
JNull == [t |-> "null"]
JNum(n) == [t |-> "num", n |-> n]
JStr(str) == [t |-> "str", s |-> str]
JObj(f) == [t |-> "obj", f |-> f]
\* the object without members
JEmpty == [t |-> "obj", f |-> <<>>]

\* Value::get(key)
Get(v, key) ==
    IF v.t = "obj" /\ key \in DOMAIN v.f THEN Some(v.f[key]) ELSE None
\* Option<&Value>.and_then(Value::as_i64)
AsI64(o) == IF o # None /\ o.some.t = "num" THEN Some(o.some.n) ELSE None
\* Option<&Value>.and_then(Value::as_u64)
AsU64(o) == IF o # None /\ o.some.t = "num" /\ o.some.n >= 0 THEN Some(o.some.n) ELSE None
\* Option<&Value>.and_then(Value::as_str)
AsStr(o) == IF o # None /\ o.some.t = "str" THEN Some(o.some.s) ELSE None
\* Option::unwrap_or
UnwrapOr(o, d) == IF o = None THEN d ELSE o.some

\* the most requests BatchRequest::validate accepts (rpc/mod.rs 60)
MaxBatchRequests == 100

\* the code used when an error object carries none (rpc_client.rs 56, 113)
DefaultErrorCode == -32603

(***************************************************************************)
(* RpcClient: request and execute_with_retry.                              *)
(***************************************************************************)

\* the error member of a wire response
WireErrors ==
    {JObj("code" :> JNum(-32602) @@ "message" :> JStr("Invalid params")),
     JEmpty,
     JNull}
WireResults == {JObj("balance" :> JStr("1000"))}

\* the JSON bodies the remote may answer a single request with: every
\* combination of an absent or present error and result member
WireResponses ==
    {JEmpty}
    \cup {JObj("id" :> JNum(1) @@ "result" :> r) : r \in WireResults}
    \cup {JObj("id" :> JNum(1) @@ "error" :> e) : e \in WireErrors}
    \cup {JObj("id" :> JNum(1) @@ "error" :> e @@ "result" :> r) :
            e \in WireErrors, r \in WireResults}

\* the outcomes of one transport exchange of request
RpcOutcomes ==
    {[type |-> "send_error"], [type |-> "not_json"]}
    \cup {[type |-> "json", value |-> v] : v \in WireResponses}

\* a reading that looks at the result member before the error member
handle_rpc_response_result_first(value) ==
    IF Get(value, "result") # None
    THEN Ok(Get(value, "result").some)
    ELSE Err([kind |-> "ParseError", info |-> "Missing result field"])

\* RpcClient::handle_rpc_response (rpc_client.rs 51-68)
handle_rpc_response(value) ==
    LET error == Get(value, "error")
    IN  IF error # None
        THEN Err([kind    |-> "RpcError",
                  code    |-> UnwrapOr(AsI64(Get(error.some, "code")), DefaultErrorCode),
                  message |-> UnwrapOr(AsStr(Get(error.some, "message")), "Unknown error")])
        ELSE IF Get(value, "result") # None
        THEN Ok(Get(value, "result").some)
        ELSE Err([kind |-> "ParseError", info |-> "Missing result field"])

\* the closure request hands to execute_with_retry (rpc_client.rs 78-92)
RequestOperation(outcome) ==
    CASE outcome.type = "send_error" -> Err([kind |-> "ConnectionError", info |-> "send"])
      [] outcome.type = "not_json" -> Err([kind |-> "ParseError", info |-> "decode"])
      [] OTHER -> handle_rpc_response(outcome.value)

\* the loop condition of execute_with_retry (rpc_client.rs 215, 221)
MayAttempt(n, cfg) == n < cfg.max_retries

\* an executor that reports exhaustion by the placeholder alone
ExhaustedErrorPlaceholder(last) ==
    Err([kind |-> "ConnectionError", info |-> "Maximum retries exceeded"])

\* the error execute_with_retry returns when its loop ends (rpc_client.rs 229-231)
ExhaustedError(last) ==
    Err(UnwrapOr(last, [kind |-> "ConnectionError", info |-> "Maximum retries exceeded"]))

\* the sleep of execute_with_retry (rpc_client.rs 223)
RpcBackoff(n) == BaseDelayMs * 2^n

RpcInit ==
    /\ rpc_config \in [max_retries : 0..MaxRetriesBound]
    /\ rpc_pc = "idle"
    /\ attempts = 0
    /\ rpc_last_error = None
    /\ rpc_result = None
    /\ rpc_invocations = 0
    /\ rpc_last_attempt = None
    /\ rpc_slept = <<>>
    /\ path_wire = None
    /\ path_result = None

\* request up to the first evaluation of the loop condition
rpc_request ==
    /\ rpc_pc = "idle"
    /\ IF MayAttempt(0, rpc_config)
       THEN /\ rpc_pc' = "attempt"
            /\ UNCHANGED rpc_result
       ELSE /\ rpc_pc' = "done"
            /\ rpc_result' = ExhaustedError(None)
    /\ UNCHANGED <<rpc_config, attempts, rpc_last_error, rpc_invocations,
                   rpc_last_attempt, rpc_slept, path_wire, path_result, rpc_others>>

\* one iteration of the loop up to its sleep (rpc_client.rs 216-226)
rpc_attempt(outcome) ==
    /\ rpc_pc = "attempt"
    /\ LET res == RequestOperation(outcome)
       IN  /\ rpc_invocations' = rpc_invocations + 1
           /\ rpc_last_attempt' = Some([outcome |-> outcome, result |-> res])
           /\ IF IsOk(res)
              THEN /\ rpc_pc' = "done"
                   /\ rpc_result' = res
                   /\ UNCHANGED <<attempts, rpc_last_error>>
              ELSE /\ attempts' = attempts + 1
                   /\ rpc_last_error' = Some(res.err)
                   /\ IF MayAttempt(attempts + 1, rpc_config)
                      THEN /\ rpc_pc' = "sleep"
                           /\ UNCHANGED rpc_result
                      ELSE /\ rpc_pc' = "done"
                           /\ rpc_result' = ExhaustedError(Some(res.err))
    /\ UNCHANGED <<rpc_config, rpc_slept, path_wire, path_result, rpc_others>>

\* the backoff sleep, then the loop condition again (rpc_client.rs 223, 215)
rpc_backoff ==
    /\ rpc_pc = "sleep"
    /\ rpc_slept' = Append(rpc_slept, RpcBackoff(attempts))
    /\ rpc_pc' = "attempt"
    /\ UNCHANGED <<rpc_config, attempts, rpc_last_error, rpc_result,
                   rpc_invocations, rpc_last_attempt, path_wire, path_result,
                   rpc_others>>

\* the code request_with_path uses when an error object carries none
\* (rpc/mod.rs 105)
PathDefaultErrorCode == -32000

\* what request_with_path makes of the body send_request decoded
\* (rpc/mod.rs 102-114)
PathResponse(response) ==
    LET error == Get(response, "error")
    IN  IF error # None
        THEN Err([kind    |-> "RpcError",
                  code    |-> UnwrapOr(AsI64(Get(error.some, "code")), PathDefaultErrorCode),
                  message |-> UnwrapOr(AsStr(Get(error.some, "message")), "Unknown error")])
        ELSE Ok(UnwrapOr(Get(response, "result"), JEmpty))

\* send_request, then the reading of its body (rpc/mod.rs 100, 117-136)
RequestWithPathResult(outcome) ==
    CASE outcome.type = "send_error" -> Err([kind |-> "ConnectionError", info |-> "send"])
      [] outcome.type = "not_json" -> Err([kind |-> "MalformedResponse", info |-> "decode"])
      [] OTHER -> PathResponse(outcome.value)

\* RpcClient::request_with_path: one transport exchange, never retried
request_with_path(outcome) ==
    /\ rpc_pc = "idle"
    /\ path_wire' = Some(outcome)
    /\ path_result' = RequestWithPathResult(outcome)
    /\ rpc_pc' = "done"
    /\ UNCHANGED <<rpc_config, attempts, rpc_last_error, rpc_result,
                   rpc_invocations, rpc_last_attempt, rpc_slept, rpc_others>>

RpcNext ==
    \/ rpc_request
    \/ \E o \in RpcOutcomes : rpc_attempt(o)
    \/ rpc_backoff
    \/ \E o \in RpcOutcomes : request_with_path(o)

\* RpcClient::new: RpcClientConfig::default()
RpcDefault ==
    /\ rpc_config = [max_retries |-> DefaultMaxRetries]
    /\ rpc_pc = "idle"
    /\ attempts = 0
    /\ rpc_last_error = None
    /\ rpc_result = None
    /\ rpc_invocations = 0
    /\ rpc_last_attempt = None
    /\ rpc_slept = <<>>
    /\ path_wire = None
    /\ path_result = None

(***************************************************************************)
(* BatchRequest and RpcClient.batch_request.                               *)
(***************************************************************************)

BatchMethods == {"query_balance"}
BatchParams == {JObj("address" :> JStr("addr"))}

\* the ids a wire element may carry
WireIds == {0, 1, 2}

\* a result that deserializes into a Balance (types.rs 38-42)
BalanceValue == JObj("amount" :> JStr("1000") @@ "denom" :> JStr("COMAI"))

\* the error member of a well-formed error element
InvalidParams == JObj("code" :> JNum(-32602) @@ "message" :> JStr("Invalid params"))

\* the elements the remote may place in its response array: with or without
\* id, result and error; an error member that is null or an object without
\* code and message; and a value that is no object
BatchElements ==
    {JNull, JEmpty,
     JObj("error" :> InvalidParams),
     JObj("id" :> JNum(0) @@ "error" :> JEmpty),
     JObj("id" :> JNum(1) @@ "result" :> JNum(1001) @@ "error" :> JNull),
     JObj("id" :> JNum(0) @@ "result" :> JNum(1000) @@ "error" :> InvalidParams)}
    \cup {JObj("id" :> JNum(i) @@ "result" :> JNum(1000 + i)) : i \in WireIds}
    \cup {JObj("id" :> JNum(0) @@ "result" :> BalanceValue)}
    \cup {JObj("id" :> JNum(i) @@ "error" :> InvalidParams) : i \in WireIds}

RECURSIVE SeqsUpTo(_, _)
\* the sequences over S of length at most n
SeqsUpTo(S, n) ==
    IF n = 0 THEN {<<>>}
    ELSE LET shorter == SeqsUpTo(S, n - 1)
         IN  shorter \cup {Append(q, e) : q \in {x \in shorter : Len(x) = n - 1}, e \in S}

\* the outcomes of the transport exchange of batch_request: the send fails,
\* the body is not a JSON array, or it is an array of values
BatchOutcomes ==
    {[type |-> "send_error"], [type |-> "not_array"]}
    \cup {[type |-> "array", elements |-> w] : w \in SeqsUpTo(BatchElements, MaxWireLen)}

\* the same outcomes with a shorter array at most
ShortBatchOutcomes ==
    {[type |-> "send_error"], [type |-> "not_array"]}
    \cup {[type |-> "array", elements |-> w] : w \in SeqsUpTo(BatchElements, MaxShortWire)}

\* a request numbered from one
NewRequestFromOne(requests, method, params) ==
    JObj("jsonrpc" :> JStr("2.0") @@ "method" :> JStr(method)
         @@ "params" :> params @@ "id" :> JNum(Len(requests) + 1))

\* the request object add_request pushes (rpc/mod.rs 45-50)
NewRequest(requests, method, params) ==
    JObj("jsonrpc" :> JStr("2.0") @@ "method" :> JStr(method)
         @@ "params" :> params @@ "id" :> JNum(Len(requests)))

\* the RpcErrorDetail batch_request builds from an element (rpc_client.rs 110-122)
ErrorDetail(resp) ==
    LET error == Get(resp, "error").some
    IN  [code       |-> UnwrapOr(AsI64(Get(error, "code")), DefaultErrorCode),
         message    |-> UnwrapOr(AsStr(Get(error, "message")), "Unknown error"),
         request_id |-> AsU64(Get(resp, "id"))]

\* one step of the loop over the response (rpc_client.rs 108-126)
Demux(acc, resp) ==
    IF Get(resp, "error") # None
    THEN [acc EXCEPT !.errors = Append(@, ErrorDetail(resp))]
    ELSE IF Get(resp, "result") # None
    THEN [acc EXCEPT !.successes = Append(@, Get(resp, "result").some)]
    ELSE acc

RECURSIVE DemuxAll(_, _)
DemuxAll(acc, response) ==
    IF response = <<>> THEN acc
    ELSE DemuxAll(Demux(acc, Head(response)), Tail(response))

\* a policy that fails the whole call when any element carries an error
BatchReturnAggregate(acc) ==
    IF acc.errors # <<>>
    THEN Err([kind |-> "BatchRpcError", errors |-> acc.errors])
    ELSE Ok(acc)

\* the value batch_request returns after the loop (rpc_client.rs 128-131)
BatchReturn(acc) == Ok(acc)

\* a batch_request that takes a body that is no array for an empty array
BatchRequestResultLenient(outcome) ==
    CASE outcome.type = "send_error" -> Err([kind |-> "ConnectionError", info |-> "send"])
      [] outcome.type = "not_array" ->
            BatchReturn(DemuxAll([successes |-> <<>>, errors |-> <<>>], <<>>))
      [] OTHER -> BatchReturn(DemuxAll([successes |-> <<>>, errors |-> <<>>],
                                       outcome.elements))

BatchRequestResult(outcome) ==
    CASE outcome.type = "send_error" -> Err([kind |-> "ConnectionError", info |-> "send"])
      [] outcome.type = "not_array" -> Err([kind |-> "ParseError", info |-> "decode"])
      [] OTHER -> BatchReturn(DemuxAll([successes |-> <<>>, errors |-> <<>>],
                                       outcome.elements))

\* BatchRequest::validate (rpc/mod.rs 53-75); every request add_request
\* pushes is an object
validate(requests) ==
    IF requests = <<>>
    THEN Err([kind |-> "ValidationError", info |-> "Batch request cannot be empty"])
    ELSE IF Len(requests) > MaxBatchRequests
    THEN Err([kind |-> "ValidationError",
              info |-> "Batch request cannot contain more than 100 requests"])
    ELSE IF \E i \in 1..Len(requests) : requests[i].t # "obj"
    THEN Err([kind |-> "ValidationError", info |-> "Invalid request"])
    ELSE Ok(<<>>)

\* one step of the loop of handle_batch_response (rpc_client.rs 151-170): the
\* first element with an error member or without result ends it
HandleOne(acc, resp) ==
    IF IsErr(acc) THEN acc
    ELSE IF Get(resp, "error") # None
    THEN Err([kind |-> "RpcError", code |-> ErrorDetail(resp).code,
              message |-> ErrorDetail(resp).message])
    ELSE IF Get(resp, "result") # None
    THEN Ok(Append(acc.ok, Get(resp, "result").some))
    ELSE Err([kind |-> "ParseError", info |-> "Missing result field in batch response"])

RECURSIVE HandleAll(_, _)
HandleAll(acc, responses) ==
    IF responses = <<>> THEN acc
    ELSE HandleAll(HandleOne(acc, Head(responses)), Tail(responses))

\* RpcClient::handle_batch_response
handle_batch_response(responses) == HandleAll(Ok(<<>>), responses)

\* the requests send_batch_request rebuilds from the batch (rpc_client.rs 175-183)
RebuiltRequests(requests) ==
    IF requests = <<>> THEN <<>>
    ELSE
    [k \in 1..Len(requests) |->
        JObj("jsonrpc" :> JStr("2.0") @@ "method" :> requests[k].f.method
             @@ "params" :> requests[k].f.params @@ "id" :> requests[k].f.id)]

\* what send_batch_request returns for a transport outcome (rpc_client.rs 189-204)
SendBatchResult(outcome) ==
    CASE outcome.type = "send_error" -> Err([kind |-> "ConnectionError", info |-> "send"])
      [] outcome.type = "not_array" -> Err([kind |-> "ParseError", info |-> "decode"])
      [] OTHER -> handle_batch_response(outcome.elements)

\* the address lists given to batch_balance_request and get_balances: none,
\* one, and as many as validate allows or one more
AddressCounts == {0, 1, MaxBatchRequests, MaxBatchRequests + 1}

\* the batch built from n addresses (rpc_client.rs 135-144, query_map.rs 74-83):
\* the k-th add_request numbers its request k - 1
BalanceBatch(n) ==
    IF n = 0 THEN <<>>
    ELSE [k \in 1..n |->
            JObj("jsonrpc" :> JStr("2.0") @@ "method" :> JStr("query_balance")
                 @@ "params" :> JObj("address" :> JStr("addr")) @@ "id" :> JNum(k - 1))]

\* serde_json::from_value::<Balance>: an object with string amount and denom
BalanceFromValue(value) ==
    IF /\ AsStr(Get(value, "amount")) # None
       /\ AsStr(Get(value, "denom")) # None
    THEN Ok([amount |-> value.f.amount.s, denom |-> value.f.denom.s])
    ELSE Err([kind |-> "ParseError", info |-> "Failed to parse balance in batch response"])

\* the collect() of get_balances over the successes (query_map.rs 88-96): the
\* first value that is no Balance fails the call
CollectBalances(successes) ==
    IF \E k \in 1..Len(successes) : IsErr(BalanceFromValue(successes[k]))
    THEN BalanceFromValue(successes[CHOOSE k \in 1..Len(successes) :
                              /\ IsErr(BalanceFromValue(successes[k]))
                              /\ \A j \in 1..(k - 1) : IsOk(BalanceFromValue(successes[j]))])
    ELSE Ok([k \in 1..Len(successes) |-> BalanceFromValue(successes[k]).ok])

\* BatchRequest::new()
BatchInit ==
    /\ batch = <<>>
    /\ batch_pc = "building"
    /\ batch_sent = <<>>
    /\ batch_wire = None
    /\ batch_result = None
    /\ batch_call = None
    /\ send_batch_result = None
    /\ balances = None

\* BatchRequest::add_request
add_request(method, params) ==
    /\ batch_pc = "building"
    /\ Len(batch) < MaxBatch
    /\ batch' = Append(batch, NewRequest(batch, method, params))
    /\ UNCHANGED <<batch_pc, batch_sent, batch_wire, batch_result, batch_call,
                   send_batch_result, balances, batch_others>>

\* RpcClient::batch_request, the transport answering with some outcome
batch_request ==
    /\ batch_pc = "building"
    /\ \E outcome \in BatchOutcomes :
          /\ batch_wire' = Some(outcome)
          /\ batch_result' = BatchRequestResult(outcome)
    /\ batch_sent' = Append(batch_sent, batch)
    /\ batch_pc' = "done"
    /\ batch_call' = Some("batch_request")
    /\ UNCHANGED <<batch, send_batch_result, balances, batch_others>>

\* RpcClient::send_batch_request: an empty batch returns before the transport
send_batch_request ==
    /\ batch_pc = "building"
    /\ IF RebuiltRequests(batch) = <<>>
       THEN /\ send_batch_result' = Ok(<<>>)
            /\ UNCHANGED <<batch_sent, batch_wire>>
       ELSE /\ \E outcome \in ShortBatchOutcomes :
                  /\ batch_wire' = Some(outcome)
                  /\ send_batch_result' = SendBatchResult(outcome)
            /\ batch_sent' = Append(batch_sent, RebuiltRequests(batch))
    /\ batch_pc' = "done"
    /\ batch_call' = Some("send_batch_request")
    /\ UNCHANGED <<batch, batch_result, balances, batch_others>>

\* RpcClient::batch_balance_request over n addresses: builds the batch and
\* hands it to batch_request
batch_balance_request(n) ==
    /\ batch_pc = "building"
    /\ batch = <<>>
    /\ batch' = BalanceBatch(n)
    /\ \E outcome \in ShortBatchOutcomes :
          /\ batch_wire' = Some(outcome)
          /\ batch_result' = BatchRequestResult(outcome)
    /\ batch_sent' = Append(batch_sent, BalanceBatch(n))
    /\ batch_pc' = "done"
    /\ batch_call' = Some("batch_balance_request")
    /\ UNCHANGED <<send_batch_result, balances, batch_others>>

\* QueryMap::get_balances over n addresses: no address returns before the
\* batch is built; otherwise batch_request, then the successes as Balances
get_balances(n) ==
    /\ batch_pc = "building"
    /\ batch = <<>>
    /\ IF n = 0
       THEN /\ balances' = Ok(<<>>)
            /\ UNCHANGED <<batch, batch_sent, batch_wire, batch_result>>
       ELSE /\ batch' = BalanceBatch(n)
            /\ \E outcome \in ShortBatchOutcomes :
                  /\ batch_wire' = Some(outcome)
                  /\ batch_result' = BatchRequestResult(outcome)
                  /\ balances' = IF IsErr(BatchRequestResult(outcome))
                                 THEN BatchRequestResult(outcome)
                                 ELSE CollectBalances(BatchRequestResult(outcome).ok.successes)
            /\ batch_sent' = Append(batch_sent, BalanceBatch(n))
    /\ batch_pc' = "done"
    /\ batch_call' = Some("get_balances")
    /\ UNCHANGED <<send_batch_result, batch_others>>

BatchNext ==
    \/ \E m \in BatchMethods, p \in BatchParams : add_request(m, p)
    \/ batch_request
    \/ send_batch_request
    \/ \E n \in AddressCounts : batch_balance_request(n)
    \/ \E n \in AddressCounts : get_balances(n)

(***************************************************************************)
(* QueryMapCache: set, get, set_refresh_handler and the background refresh *)
(* task, at the grain of their lock acquisitions.                          *)
(***************************************************************************)

CacheKeys == {"a", "b"}
\* the value the next set writes: the n-th set of a run writes n, so that
\* no two sets write the same value
NextValue == sets_made + 1
Handlers == {"h1", "h2"}
Callers == {1, 2}

\* CacheConfig::default() (cache/config.rs 10-18), in seconds
DefaultCacheConfig == [ttl |-> 60, refresh_interval |-> 300, max_entries |-> 1000]

\* the configurations explored: QueryMapCache::new takes any CacheConfig
CacheConfigs == [ttl : {2}, refresh_interval : {1}, max_entries : 0..2]

\* CacheMetrics::default()
DefaultMetrics ==
    [hits |-> 0, misses |-> 0, refresh_failures |-> 0, refresh_success_count |-> 0,
     refresh_error_count |-> 0, current_entries |-> 0]

\* the keys of the map
Present(e) == {k \in CacheKeys : e[k] # None}

\* the entries write lock is held: by a set between its insert and its
\* metrics update, or by the refresh task between its write and its count
EntriesWriteHeld ==
    \/ \E c \in Callers : callers[c].op = "set"
    \/ refresh.pc = "write_metrics"
\* a task that keeps the read lock of its scan while it refreshes the keys
EntriesReadHeldByScan ==
    \/ \E c \in Callers : callers[c].op = "get"
    \/ refresh.pc \in {"loop", "handler", "write", "write_metrics"}
\* the entries read lock is held: by a get waiting for the metrics lock
EntriesReadHeld == \E c \in Callers : callers[c].op = "get"
\* the refresh_handler read lock is held: by the refresh task from the call
\* of the handler to the end of the match (cache.rs 138-154)
HandlerReadHeld == refresh.pc \in {"handler", "write", "write_metrics"}

\* the test of get (cache.rs 101)
IsFresh(entry, t) == entry.expires_at > t

\* a scan that passes over the entries expiring at the very time of the scan
IsStaleStrict(entry, t) == entry.expires_at < t

\* the test of the scan (cache.rs 131)
IsStale(entry, t) == entry.expires_at <= t

\* entries.insert (cache.rs 78-80)
Insert(e, key, value, t, cfg) ==
    [e EXCEPT ![key] = Some([value |-> value, expires_at |-> t + cfg.ttl])]

\* a limit test that lets the map grow one entry beyond max_entries
NeedsEvictionLate(e, cfg) == Cardinality(Present(e)) > cfg.max_entries + 1

\* the limit test of set (cache.rs 82)
NeedsEviction(e, cfg) == Cardinality(Present(e)) > cfg.max_entries

\* a choice of victim that looks at no expiry time
OldestKeysAny(e) == Present(e)

\* the keys min_by_key may return (cache.rs 83-85): those of minimal
\* expires_at; which of several it is depends on the iteration order of the
\* HashMap
OldestKeys(e) ==
    {k \in Present(e) : \A j \in Present(e) : e[k].some.expires_at <= e[j].some.expires_at}

\* a miss that is counted nowhere
RecordMissDropped(m) == m

\* cache.rs 102 and 107
RecordHit(m) == [m EXCEPT !.hits = @ + 1]
RecordMiss(m) == [m EXCEPT !.misses = @ + 1]

\* what get returns for the entry it finds (cache.rs 100-108)
GetResult(entry, t) ==
    IF entry # None /\ IsFresh(entry.some, t) THEN Some(entry.some.value) ELSE None

\* the value a handler returns for a key (cache.rs 139-140): one per handler,
\* none of them a value a caller sets
HandlerResult(h) == IF h = "h1" THEN -1 ELSE -2

\* a refresh that writes the value and leaves the expiry of the entry alone
RefreshWriteValueOnly(e, key, value, t, cfg) ==
    IF e[key] # None
    THEN [e EXCEPT ![key] = Some([value |-> value, expires_at |-> e[key].some.expires_at])]
    ELSE e

\* the write of a successful refresh (cache.rs 142-145): only to a key in the map
RefreshWrite(e, key, value, t, cfg) ==
    IF e[key] # None
    THEN [e EXCEPT ![key] = Some([value |-> value, expires_at |-> t + cfg.ttl])]
    ELSE e

\* the orders in which an iteration of the map may give the keys of S
Orders(S) ==
    {q \in SeqsUpTo(S, Cardinality(S)) :
        Len(q) = Cardinality(S) /\ \A i, j \in 1..Len(q) : i # j => q[i] # q[j]}

\* the refresh task in its sleep (cache.rs 126)
Sleeping(t, cfg) == [pc |-> "sleeping", wake_at |-> t + cfg.refresh_interval]

\* QueryMapCache::new(config), no task started
CacheInitWith(configs) ==
    /\ cache_config \in configs
    /\ now = 0
    /\ entries = [k \in CacheKeys |-> None]
    /\ metrics = DefaultMetrics
    /\ refresh_handler = None
    /\ callers = [c \in Callers |-> [op |-> "idle"]]
    /\ refresh = [pc |-> "off"]
    /\ cache_ops = 0
    /\ gets_done = 0
    /\ gets_some = 0
    /\ sets_made = 0
    /\ returned = None
    /\ written = [k \in CacheKeys |-> None]
    /\ last_got = None

CacheInit == CacheInitWith(CacheConfigs)

\* a cache of at least one entry after its first call, set("a", 1), has
\* returned (cache.rs 77-94), with begun of the calls counted as made, the
\* handler and the refresh task as given
CacheAfterFirstSet(begun, handler, task) ==
    /\ cache_config \in {cfg \in CacheConfigs : cfg.max_entries >= 1}
    /\ now = 0
    /\ entries = Insert([k \in CacheKeys |-> None], "a", 1, 0, cache_config)
    /\ metrics = [DefaultMetrics EXCEPT !.current_entries = 1]
    /\ refresh_handler = handler
    /\ callers = [c \in Callers |-> [op |-> "idle"]]
    /\ refresh = task
    /\ cache_ops = begun
    /\ gets_done = 0
    /\ gets_some = 0
    /\ sets_made = 1
    /\ returned = None
    /\ written = [k \in CacheKeys |->
                    IF k = "a" THEN Some([value |-> 1, at |-> 0, intact |-> TRUE]) ELSE None]
    /\ last_got = None

\* the calls counted from the return of the first set
CacheWarm == CacheAfterFirstSet(0, None, [pc |-> "off"])
\* set_refresh_handler, set and start_background_refresh called in turn, as
\* in test_background_refresh (tests/cache_tests.rs 106-123)
CacheRefreshing == CacheAfterFirstSet(1, Some("h1"), Sleeping(0, cache_config))

CacheDefault == CacheInitWith({DefaultCacheConfig})

\* what a step that is no return of get leaves alone or resets
NoReturn ==
    /\ returned' = None
    /\ UNCHANGED <<cache_config, gets_done, gets_some, cache_others>>

\* the passing of time
tick ==
    /\ now < MaxTime
    /\ now' = now + 1
    /\ NoReturn
    /\ UNCHANGED <<entries, metrics, refresh_handler, callers, refresh, cache_ops,
                   sets_made, written, last_got>>

\* set up to its wait for the metrics lock (cache.rs 77-90): the entries write
\* lock is taken, the entry inserted and, over the limit, one entry removed
set_insert(c, key, value) ==
    /\ callers[c].op = "idle"
    /\ cache_ops < MaxCacheOps
    /\ ~EntriesWriteHeld /\ ~EntriesReadHeld
    /\ LET inserted == Insert(entries, key, value, now, cache_config)
           set == Some([value |-> value, at |-> now, intact |-> TRUE])
       IN  IF NeedsEviction(inserted, cache_config)
           THEN \E victim \in OldestKeys(inserted) :
                   /\ entries' = [inserted EXCEPT ![victim] = None]
                   /\ written' = [k \in CacheKeys |->
                                    IF k = key THEN set
                                    ELSE IF k = victim /\ written[k] # None
                                    THEN Some([written[k].some EXCEPT !.intact = FALSE])
                                    ELSE written[k]]
           ELSE /\ entries' = inserted
                /\ written' = [written EXCEPT ![key] = set]
    /\ callers' = [callers EXCEPT ![c] = [op |-> "set", key |-> key]]
    /\ cache_ops' = cache_ops + 1
    /\ sets_made' = sets_made + 1
    /\ last_got' = IF last_got # None /\ last_got.some.key = key THEN None ELSE last_got
    /\ NoReturn
    /\ UNCHANGED <<now, metrics, refresh_handler, refresh>>

\* a set that counts one more entry each time
set_count_added(c) ==
    /\ callers[c].op = "set"
    /\ metrics' = [metrics EXCEPT !.current_entries = @ + 1]
    /\ callers' = [callers EXCEPT ![c] = [op |-> "idle"]]
    /\ NoReturn
    /\ UNCHANGED <<now, entries, refresh_handler, refresh, cache_ops, sets_made,
                   written, last_got>>

\* the rest of set (cache.rs 92-94): the metrics lock, the count, both locks
\* released
set_count(c) ==
    /\ callers[c].op = "set"
    /\ metrics' = [metrics EXCEPT !.current_entries = Cardinality(Present(entries))]
    /\ callers' = [callers EXCEPT ![c] = [op |-> "idle"]]
    /\ NoReturn
    /\ UNCHANGED <<now, entries, refresh_handler, refresh, cache_ops, sets_made,
                   written, last_got>>

\* get up to its wait for the metrics lock (cache.rs 97): the entries read
\* lock is taken
get_read(c, key) ==
    /\ callers[c].op = "idle"
    /\ cache_ops < MaxCacheOps
    /\ ~EntriesWriteHeld
    /\ callers' = [callers EXCEPT ![c] = [op |-> "get", key |-> key]]
    /\ cache_ops' = cache_ops + 1
    /\ NoReturn
    /\ UNCHANGED <<now, entries, metrics, refresh_handler, refresh, sets_made, written,
                   last_got>>

\* a get that drops the stale entry it finds
get_return_removing(c) ==
    /\ callers[c].op = "get"
    /\ LET result == GetResult(entries[callers[c].key], now)
       IN  /\ metrics' = IF result # None THEN RecordHit(metrics) ELSE RecordMiss(metrics)
           /\ gets_some' = IF result # None THEN gets_some + 1 ELSE gets_some
           /\ returned' = Some([key |-> callers[c].key, result |-> result])
           /\ last_got' = Some([key |-> callers[c].key, result |-> result])
           /\ entries' = IF result = None THEN [entries EXCEPT ![callers[c].key] = None]
                         ELSE entries
    /\ gets_done' = gets_done + 1
    /\ callers' = [callers EXCEPT ![c] = [op |-> "idle"]]
    /\ UNCHANGED <<cache_config, now, refresh_handler, refresh, cache_ops,
                   sets_made, written, cache_others>>

\* the rest of get (cache.rs 98-109): the metrics lock, the lookup, the hit
\* or the miss, both locks released
get_return(c) ==
    /\ callers[c].op = "get"
    /\ LET result == GetResult(entries[callers[c].key], now)
       IN  /\ metrics' = IF result # None THEN RecordHit(metrics) ELSE RecordMiss(metrics)
           /\ gets_some' = IF result # None THEN gets_some + 1 ELSE gets_some
           /\ returned' = Some([key |-> callers[c].key, result |-> result])
           /\ last_got' = Some([key |-> callers[c].key, result |-> result])
    /\ gets_done' = gets_done + 1
    /\ callers' = [callers EXCEPT ![c] = [op |-> "idle"]]
    /\ UNCHANGED <<cache_config, now, entries, refresh_handler, refresh, cache_ops,
                   sets_made, written, cache_others>>

\* QueryMapCache::set_refresh_handler: waits while the refresh task reads the
\* handler
set_refresh_handler(handler) ==
    /\ ~HandlerReadHeld
    /\ refresh_handler' = Some(handler)
    /\ NoReturn
    /\ UNCHANGED <<now, entries, metrics, callers, refresh, cache_ops, sets_made,
                   written, last_got>>

\* QueryMapCache::start_background_refresh: the task is spawned and sleeps
start_background_refresh ==
    /\ refresh.pc = "off"
    /\ refresh' = Sleeping(now, cache_config)
    /\ NoReturn
    /\ UNCHANGED <<now, entries, metrics, refresh_handler, callers, cache_ops,
                   sets_made, written, last_got>>

\* the scan after the sleep (cache.rs 126-134): under the entries read lock,
\* the keys whose entry is stale, in the order of the iteration
refresh_scan ==
    /\ refresh.pc = "sleeping"
    /\ metrics.refresh_success_count + metrics.refresh_error_count < MaxRefreshes
    /\ now >= refresh.wake_at
    /\ ~EntriesWriteHeld
    /\ \E keys \in Orders({k \in Present(entries) : IsStale(entries[k].some, now)}) :
          refresh' = [pc |-> "drop", keys_to_refresh |-> keys,
                      scan_handler |-> refresh_handler]
    /\ NoReturn
    /\ UNCHANGED <<now, entries, metrics, refresh_handler, callers, cache_ops,
                   sets_made, written, last_got>>

\* drop(cache.entries.read().await) (cache.rs 135): the read lock once more
refresh_drop ==
    /\ refresh.pc = "drop"
    /\ ~EntriesWriteHeld
    /\ refresh' = [refresh EXCEPT !.pc = "loop"]
    /\ NoReturn
    /\ UNCHANGED <<now, entries, metrics, refresh_handler, callers, cache_ops,
                   sets_made, written, last_got>>

\* a task that counts an error for a key it finds no handler for
refresh_next_counting ==
    /\ refresh.pc = "loop"
    /\ refresh' =
         IF refresh.keys_to_refresh = <<>>
         THEN Sleeping(now, cache_config)
         ELSE IF refresh_handler = None
         THEN [refresh EXCEPT !.keys_to_refresh = Tail(@)]
         ELSE [pc |-> "handler", keys_to_refresh |-> Tail(refresh.keys_to_refresh),
               key |-> Head(refresh.keys_to_refresh), handler |-> refresh_handler.some,
               scan_handler |-> refresh.scan_handler]
    /\ metrics' = IF refresh.keys_to_refresh # <<>> /\ refresh_handler = None
                  THEN [metrics EXCEPT !.refresh_error_count = @ + 1]
                  ELSE metrics
    /\ NoReturn
    /\ UNCHANGED <<now, entries, refresh_handler, callers, cache_ops,
                   sets_made, written, last_got>>

\* the head of the loop over the keys (cache.rs 137-139): after the last key
\* the task sleeps again; without handler the key is passed over; otherwise
\* the handler is called under the refresh_handler read lock
refresh_next ==
    /\ refresh.pc = "loop"
    /\ refresh' =
         IF refresh.keys_to_refresh = <<>>
         THEN Sleeping(now, cache_config)
         ELSE IF refresh_handler = None
         THEN [refresh EXCEPT !.keys_to_refresh = Tail(@)]
         ELSE [pc |-> "handler", keys_to_refresh |-> Tail(refresh.keys_to_refresh),
               key |-> Head(refresh.keys_to_refresh), handler |-> refresh_handler.some,
               scan_handler |-> refresh.scan_handler]
    /\ NoReturn
    /\ UNCHANGED <<now, entries, metrics, refresh_handler, callers, cache_ops,
                   sets_made, written, last_got>>

\* the handler fails (cache.rs 149-152): the error is counted
refresh_failed ==
    /\ refresh.pc = "handler"
    /\ metrics' = [metrics EXCEPT !.refresh_error_count = @ + 1]
    /\ refresh' = [pc |-> "loop", keys_to_refresh |-> refresh.keys_to_refresh,
                   scan_handler |-> refresh.scan_handler]
    /\ NoReturn
    /\ UNCHANGED <<now, entries, refresh_handler, callers, cache_ops, sets_made,
                   written, last_got>>

\* the handler returns a value (cache.rs 139-140): the task goes for the
\* entries write lock
refresh_fetched ==
    /\ refresh.pc = "handler"
    /\ refresh' = [refresh EXCEPT !.pc = "write"]
    /\ NoReturn
    /\ UNCHANGED <<now, entries, metrics, refresh_handler, callers, cache_ops,
                   sets_made, written, last_got>>

\* a write that puts the handler's value in the map whether or not the key
\* is there
refresh_write_inserting ==
    /\ refresh.pc = "write"
    /\ ~EntriesWriteHeld /\ ~EntriesReadHeld
    /\ entries' = [entries EXCEPT ![refresh.key] =
                      Some([value |-> HandlerResult(refresh.handler),
                            expires_at |-> now + cache_config.ttl])]
    /\ written' = IF entries[refresh.key] # None /\ written[refresh.key] # None
                  THEN [written EXCEPT ![refresh.key] = Some([@.some EXCEPT !.intact = FALSE])]
                  ELSE written
    /\ refresh' = [refresh EXCEPT !.pc = "write_metrics"]
    /\ NoReturn
    /\ UNCHANGED <<now, metrics, refresh_handler, callers, cache_ops, sets_made, last_got>>

\* the write under the entries write lock (cache.rs 141-145) of the value the
\* handler returned
refresh_write ==
    /\ refresh.pc = "write"
    /\ ~EntriesWriteHeld /\ ~EntriesReadHeld
    /\ entries' = RefreshWrite(entries, refresh.key, HandlerResult(refresh.handler), now,
                               cache_config)
    /\ written' = IF entries[refresh.key] # None /\ written[refresh.key] # None
                  THEN [written EXCEPT ![refresh.key] = Some([@.some EXCEPT !.intact = FALSE])]
                  ELSE written
    /\ refresh' = [refresh EXCEPT !.pc = "write_metrics"]
    /\ NoReturn
    /\ UNCHANGED <<now, metrics, refresh_handler, callers, cache_ops, sets_made, last_got>>

\* the count of the refresh (cache.rs 146-147), then every lock released
refresh_count ==
    /\ refresh.pc = "write_metrics"
    /\ metrics' = [metrics EXCEPT !.refresh_success_count = @ + 1]
    /\ refresh' = [pc |-> "loop", keys_to_refresh |-> refresh.keys_to_refresh,
                   scan_handler |-> refresh.scan_handler]
    /\ NoReturn
    /\ UNCHANGED <<now, entries, refresh_handler, callers, cache_ops, sets_made,
                   written, last_got>>

CacheNext ==
    \/ tick
    \/ \E c \in Callers, k \in CacheKeys : set_insert(c, k, NextValue)
    \/ \E c \in Callers : set_count(c)
    \/ \E c \in Callers, k \in CacheKeys : get_read(c, k)
    \/ \E c \in Callers : get_return(c)
    \/ \E h \in Handlers : set_refresh_handler(h)
    \/ start_background_refresh
    \/ refresh_scan
    \/ refresh_drop
    \/ refresh_next
    \/ refresh_failed
    \/ refresh_fetched
    \/ refresh_write
    \/ refresh_count

(***************************************************************************)
(* QueryMapConfig::validate and QueryMap::new.                             *)
(***************************************************************************)
\* Duration::from_secs(1), the least refresh interval (config.rs 14), in
\* milliseconds
OneSecond == 1000

\* QueryMapConfig::default: 5 and 10 minutes
DefaultQueryMapConfig == [refresh_interval |-> 300000, cache_duration |-> 600000]

\* the durations a configuration is built from, in milliseconds: around the
\* second, those of the tests (100 ms, 5 s, 10 s) and the defaults
ConfigDurations == {0, 100, 999, 1000, 1001, 5000, 10000, 300000, 600000}
QueryMapConfigs == [refresh_interval : ConfigDurations, cache_duration : ConfigDurations]

\* a validation that looks at the cache duration before the refresh interval
QueryMapConfigValidateDurationFirst(config) ==
    IF config.cache_duration <= config.refresh_interval
    THEN Err([kind |-> "ConfigError",
              info |-> "Cache duration must be longer than refresh interval"])
    ELSE IF config.refresh_interval < OneSecond
    THEN Err([kind |-> "ConfigError", info |-> "Refresh interval must be at least 1 second"])
    ELSE Ok(<<>>)

\* QueryMapConfig::validate
QueryMapConfigValidate(config) ==
    IF config.refresh_interval < OneSecond
    THEN Err([kind |-> "ConfigError", info |-> "Refresh interval must be at least 1 second"])
    ELSE IF config.cache_duration <= config.refresh_interval
    THEN Err([kind |-> "ConfigError",
              info |-> "Cache duration must be longer than refresh interval"])
    ELSE Ok(<<>>)

\* what QueryMap::new returns (query_map.rs 30-38): the error of validate, or
\* the QueryMap with its configuration and a refresh count of 0
QueryMapNew(config) ==
    IF IsErr(QueryMapConfigValidate(config))
    THEN QueryMapConfigValidate(config)
    ELSE Ok([config |-> config, refresh_count |-> 0])

QmInitWith(configs) ==
    /\ qm_config \in configs
    /\ qm_result = None

QmInit == QmInitWith(QueryMapConfigs)
QmDefault == QmInitWith({DefaultQueryMapConfig})

\* QueryMap::new
query_map_new ==
    /\ qm_result = None
    /\ qm_result' = QueryMapNew(qm_config)
    /\ UNCHANGED <<qm_config, qm_others>>

QmNext ==
    \/ query_map_new

(***************************************************************************)
(* WalletClient::batch_transfer.                                           *)
(***************************************************************************)
\* MAX_BATCH_SIZE
MaxBatchSize == 100
\* MIN_AMOUNT
MinAmount == 1
\* VALID_DENOMS
ValidDenoms == {"COMAI"}

\* the prefix of an address, as characters
Cmx1 == <<"c", "m", "x", "1">>

\* str::starts_with over strings as sequences of characters
StartsWith(str, prefix) ==
    Len(str) >= Len(prefix) /\ SubSeq(str, 1, Len(prefix)) = prefix

\* the addresses of the transfers: one with the prefix, one that stops short
\* of it, one in which it is not at the start
WalletAddresses == {Cmx1 \o <<"s">>, <<"c", "m", "x">>, <<"x">> \o Cmx1}
Transfers ==
    [from : WalletAddresses, to : WalletAddresses, amount : {0, MinAmount},
     denom : {"COMAI", "INVALID"}]
\* a transfer that validate_transfer accepts
ValidTransfer ==
    [from |-> Cmx1 \o <<"s">>, to |-> Cmx1 \o <<"s">>, amount |-> 100, denom |-> "COMAI"]

\* n transfers, the last one given, the others valid
LongTransfers(n, last) == [k \in 1..n |-> IF k = n THEN last ELSE ValidTransfer]

\* the lists given to batch_transfer: the short ones, and those of as many
\* transfers as batch_transfer allows or one more
TransferLists ==
    SeqsUpTo(Transfers, MaxTransfers)
    \cup {LongTransfers(n, last) : n \in {MaxBatchSize, MaxBatchSize + 1}, last \in Transfers}

\* a validation that takes any denomination
validate_transfer_any_denom(transfer) ==
    IF ~StartsWith(transfer.from, Cmx1)
    THEN Err([kind |-> "ValidationError", info |-> "Invalid sender address format"])
    ELSE IF ~StartsWith(transfer.to, Cmx1)
    THEN Err([kind |-> "ValidationError", info |-> "Invalid receiver address format"])
    ELSE IF transfer.amount < MinAmount
    THEN Err([kind |-> "ValidationError", info |-> "Amount must be greater than 0"])
    ELSE Ok(<<>>)

\* WalletClient::validate_transfer
validate_transfer(transfer) ==
    IF ~StartsWith(transfer.from, Cmx1)
    THEN Err([kind |-> "ValidationError", info |-> "Invalid sender address format"])
    ELSE IF ~StartsWith(transfer.to, Cmx1)
    THEN Err([kind |-> "ValidationError", info |-> "Invalid receiver address format"])
    ELSE IF transfer.amount < MinAmount
    THEN Err([kind |-> "ValidationError", info |-> "Amount must be greater than 0"])
    ELSE IF transfer.denom \notin ValidDenoms
    THEN Err([kind |-> "ValidationError", info |-> "Invalid denomination"])
    ELSE Ok(<<>>)

\* the checks before the request (wallet/mod.rs 346-359): the size of the
\* list, then the transfers in order up to the first that fails
ValidateTransfers(list) ==
    IF list = <<>>
    THEN Err([kind |-> "ValidationError", info |-> "Transfer list cannot be empty"])
    ELSE IF Len(list) > MaxBatchSize
    THEN Err([kind |-> "ValidationError", info |-> "Batch size exceeds maximum limit of 100"])
    ELSE IF \E i \in 1..Len(list) : IsErr(validate_transfer(list[i]))
    THEN validate_transfer(
            list[CHOOSE i \in 1..Len(list) :
                    /\ IsErr(validate_transfer(list[i]))
                    /\ \A j \in 1..(i - 1) : IsOk(validate_transfer(list[j]))])
    ELSE Ok(<<>>)

\* a JSON array
JArr(elements) == [t |-> "arr", a |-> elements]

\* the results the remote may give to batch_transfer: a BatchTransferResult
\* of one transaction, and an object without the transactions
TransferValues ==
    {JObj("batch_id" :> JStr("b1")
          @@ "transactions" :> JArr(<<JObj("hash" :> JStr("0x1")
                                           @@ "status" :> JStr("success"))>>)),
     JObj("batch_id" :> JStr("b1"))}

\* what rpc_client.request may return to batch_transfer
TransferAnswers ==
    {Ok(v) : v \in TransferValues} \cup {RequestOperation(o) : o \in RpcOutcomes}

\* serde_json::from_value::<BatchTransferResult> accepts the value
IsBatchTransferResult(value) ==
    /\ AsStr(Get(value, "batch_id")) # None
    /\ Get(value, "transactions") # None
    /\ Get(value, "transactions").some.t = "arr"
    /\ \A i \in 1..Len(Get(value, "transactions").some.a) :
          LET tx == Get(value, "transactions").some.a[i]
          IN  /\ AsStr(Get(tx, "hash")) # None
              /\ AsStr(Get(tx, "status")) # None
              /\ AsStr(Get(tx, "status")).some \in {"success", "failed", "pending"}

\* what batch_transfer makes of the answer (wallet/mod.rs 365-378)
BatchTransferReturn(answer) ==
    IF IsErr(answer)
    THEN IF answer.err.kind = "RequestTimeout"
         THEN Err([kind |-> "RequestTimeout", info |-> "Batch transfer request timed out"])
         ELSE answer
    ELSE IF IsBatchTransferResult(answer.ok)
    THEN answer
    ELSE Err([kind |-> "ParseError", info |-> "Failed to parse batch transfer response"])

WalletInitWith(lists) ==
    /\ transfers \in lists
    /\ wallet_sent = <<>>
    /\ wallet_result = None
    /\ wait = [pc |-> "idle"]
    /\ wait_result = None

WalletInit == WalletInitWith(TransferLists)
WalletDefault == WalletInitWith({<<>>})

\* WalletClient::batch_transfer
batch_transfer ==
    /\ wallet_result = None
    /\ IF IsErr(ValidateTransfers(transfers))
       THEN /\ wallet_result' = ValidateTransfers(transfers)
            /\ UNCHANGED wallet_sent
       ELSE /\ \E answer \in TransferAnswers :
                  wallet_result' = BatchTransferReturn(answer)
            /\ wallet_sent' = Append(wallet_sent, transfers)
    /\ UNCHANGED <<transfers, wait, wait_result, wallet_others>>

WalletNext ==
    \/ batch_transfer

(***************************************************************************)
(* WalletClient::wait_for_transaction.                                     *)
(***************************************************************************)
\* the sleep between two polls, in seconds (wallet/mod.rs 336)
PollSleepSecs == 2

\* the hash waited for
TxHash == "0xabcd1234"
\* the timeouts given to wait_for_transaction, in seconds
Timeouts == 0..MaxTimeout
\* the seconds a poll may take, and those a sleep may take beyond its two
Delays == {0, 1}

\* the results of transaction/state: every state the remote may name, one
\* it may not, a state that is no string and an object without state
StateValues ==
    {JObj("state" :> JStr(st) @@ "confirmations" :> JNum(1)) :
        st \in {"success", "failed", "pending", "not_found"}}
    \cup {JObj("state" :> JStr("dropped")), JObj("state" :> JNum(1)), JEmpty}

\* what rpc_client.request_with_path may return to get_transaction_state
PollAnswers ==
    {Ok(v) : v \in StateValues} \cup {RequestWithPathResult(o) : o \in RpcOutcomes}

\* the reading of the state member (wallet/mod.rs 305-310)
TxstateOf(response) ==
    LET state == AsStr(Get(response, "state"))
    IN  IF state = Some("success") THEN "Success"
        ELSE IF state = Some("failed") THEN "Failed"
        ELSE IF state = Some("pending") THEN "Pending"
        ELSE "NotFound"

\* WalletClient::get_transaction_state on the answer of the remote; the
\* timestamp, the current time when the response has none, is left out
get_transaction_state(tx_hash, answer) ==
    IF IsErr(answer)
    THEN answer
    ELSE Ok([hash          |-> tx_hash,
             block_num     |-> AsU64(Get(answer.ok, "block_num")),
             confirmations |-> UnwrapOr(AsU64(Get(answer.ok, "confirmations")), 0),
             state         |-> TxstateOf(answer.ok),
             error         |-> AsStr(Get(answer.ok, "error"))])

\* the loop condition (wallet/mod.rs 330) at elapsed seconds after the start,
\* and what follows it: the next poll, or the return of the timeout
WaitLoop(timeout, elapsed, polls, answer) ==
    IF elapsed < timeout
    THEN /\ wait' = [pc |-> "poll", timeout |-> timeout, elapsed |-> elapsed,
                     polls |-> polls, answer |-> answer]
         /\ wait_result' = None
    ELSE /\ wait' = [pc |-> "done", timeout |-> timeout, elapsed |-> elapsed,
                     polls |-> polls, answer |-> answer]
         /\ wait_result' = Err([kind |-> "RequestTimeout",
                                info |-> "Transaction wait timeout"])

\* WalletClient::wait_for_transaction up to its first poll
wait_for_transaction(timeout) ==
    /\ wait.pc = "idle"
    /\ WaitLoop(timeout, 0, 0, None)
    /\ UNCHANGED <<transfers, wallet_sent, wallet_result, wallet_others>>

\* a wait that takes every state of the transaction for its end
wait_polled_any_state(answer, took) ==
    /\ wait.pc = "poll"
    /\ LET state == get_transaction_state(TxHash, answer)
           polled == [wait EXCEPT !.elapsed = @ + took, !.polls = @ + 1,
                                  !.answer = Some(answer)]
       IN  /\ wait' = [polled EXCEPT !.pc = "done"]
           /\ wait_result' = state
    /\ UNCHANGED <<transfers, wallet_sent, wallet_result, wallet_others>>

\* the poll returns (wallet/mod.rs 331-339): the error is returned, and so
\* is a state of Success or Failed; on any other state the sleep begins
wait_polled(answer, took) ==
    /\ wait.pc = "poll"
    /\ LET state == get_transaction_state(TxHash, answer)
           polled == [wait EXCEPT !.elapsed = @ + took, !.polls = @ + 1,
                                  !.answer = Some(answer)]
       IN  IF IsErr(state)
           THEN /\ wait' = [polled EXCEPT !.pc = "done"]
                /\ wait_result' = state
           ELSE IF state.ok.state \in {"Success", "Failed"}
           THEN /\ wait' = [polled EXCEPT !.pc = "done"]
                /\ wait_result' = state
           ELSE /\ wait' = [polled EXCEPT !.pc = "sleep"]
                /\ wait_result' = None
    /\ UNCHANGED <<transfers, wallet_sent, wallet_result, wallet_others>>

\* the sleep ends after two seconds or more, then the loop condition
wait_slept(late) ==
    /\ wait.pc = "sleep"
    /\ WaitLoop(wait.timeout, wait.elapsed + PollSleepSecs + late, wait.polls, wait.answer)
    /\ UNCHANGED <<transfers, wallet_sent, wallet_result, wallet_others>>

WaitNext ==
    \/ \E timeout \in Timeouts : wait_for_transaction(timeout)
    \/ \E answer \in PollAnswers, took \in Delays : wait_polled(answer, took)
    \/ \E late \in Delays : wait_slept(late)


vars == <<mc_vars, rpc_vars, batch_vars, cache_vars, qm_vars, wallet_vars>>

\* the module client in use, beside a default RPC client and an empty batch
InitCall ==
    McInit /\ RpcDefault /\ BatchInit /\ CacheDefault
        /\ QmDefault /\ WalletDefault
SpecCall == InitCall /\ [][McNext]_vars

\* the RPC client in use, beside a default module client
InitRpc ==
    McDefault /\ RpcInit /\ BatchInit /\ CacheDefault
        /\ QmDefault /\ WalletDefault
SpecRpc == InitRpc /\ [][RpcNext]_vars

\* both clients in use concurrently
NextRetry == McNext \/ RpcNext
SpecRetry == InitRpc /\ [][NextRetry]_vars

\* the batch entry point of the RPC client in use
InitBatch ==
    McDefault /\ RpcDefault /\ BatchInit /\ CacheDefault
        /\ QmDefault /\ WalletDefault
SpecBatch == InitBatch /\ [][BatchNext]_vars

\* the construction of a QueryMap from a configuration
InitQueryMap ==
    McDefault /\ RpcDefault /\ BatchInit /\ CacheDefault /\ QmInit /\ WalletDefault
SpecQueryMap == InitQueryMap /\ [][QmNext]_vars

\* a call of batch_transfer on a list of transfers
InitWallet ==
    McDefault /\ RpcDefault /\ BatchInit /\ CacheDefault /\ QmDefault /\ WalletInit
SpecWallet == InitWallet /\ [][WalletNext]_vars

\* a call of wait_for_transaction
InitWait ==
    McDefault /\ RpcDefault /\ BatchInit /\ CacheDefault /\ QmDefault /\ WalletDefault
\* every poll returns and every sleep ends
WaitFairness ==
    /\ WF_vars(\E answer \in PollAnswers, took \in Delays : wait_polled(answer, took))
    /\ WF_vars(\E late \in Delays : wait_slept(late))
SpecWait == InitWait /\ [][WaitNext]_vars /\ WaitFairness

\* a cache in use by two foreground tasks and its refresh task
InitCache ==
    McDefault /\ RpcDefault /\ BatchInit /\ CacheInit
        /\ QmDefault /\ WalletDefault
SpecCache == InitCache /\ [][CacheNext]_vars

\* the foreground task beside the refresh task
LiveCallers == {1}

\* QueryMapCache with its refresh task started, a refresh handler that never
\* fails and one foreground task: the steps of CacheNext but the start of
\* the task and the failure of the handler
CacheLiveNext ==
    \/ tick
    \/ \E c \in LiveCallers, k \in CacheKeys : set_insert(c, k, NextValue)
    \/ \E c \in LiveCallers : set_count(c)
    \/ \E c \in LiveCallers, k \in CacheKeys : get_read(c, k)
    \/ \E c \in LiveCallers : get_return(c)
    \/ \E h \in Handlers : set_refresh_handler(h)
    \/ refresh_scan
    \/ refresh_drop
    \/ refresh_next
    \/ refresh_fetched
    \/ refresh_write
    \/ refresh_count

\* time passes; the runtime goes on polling the spawned refresh task, whose
\* steps wait only for the sleep and for locks (tokio's RwLock queues its
\* waiters in order); a call that holds a lock runs to its return
CacheFairness ==
    /\ WF_vars(tick)
    /\ WF_vars(refresh_scan)
    /\ WF_vars(refresh_drop)
    /\ WF_vars(refresh_next)
    /\ WF_vars(refresh_fetched)
    /\ WF_vars(refresh_write)
    /\ WF_vars(refresh_count)
    /\ WF_vars(\E c \in LiveCallers : set_count(c))
    /\ WF_vars(\E c \in LiveCallers : get_return(c))

InitCacheLive ==
    McDefault /\ RpcDefault /\ BatchInit /\ CacheRefreshing
        /\ QmDefault /\ WalletDefault
SpecCacheLive == InitCacheLive /\ [][CacheLiveNext]_vars /\ CacheFairness

\* QueryMapCache from the return of its first set
InitCacheWarm ==
    McDefault /\ RpcDefault /\ BatchInit /\ CacheWarm
        /\ QmDefault /\ WalletDefault
SpecCacheWarm == InitCacheWarm /\ [][CacheNext]_vars

(***************************************************************************)
(* Properties of ModuleClient.call.                                        *)
(***************************************************************************)
\* the endpoint registered under the called method, if any
CalledEndpoint == endpoint_registry[mc_method.some]
\* the client's max_retries applies to the call in progress
ClientRetriesApply ==
    /\ mc_method # None
    /\ CalledEndpoint = None \/ CalledEndpoint.some.allow_retries
\* the result of the latest transport exchange of call
McLastResult == mc_last_attempt.some.result

C3_TerminalErrorEndsCall ==
    (/\ mc_last_attempt # None
     /\ IsErr(McLastResult)
     /\ McLastResult.err.kind \notin {"Timeout", "ServerError"})
        => /\ mc_pc = "done"
           /\ mc_result = McLastResult

C3_Witness ==
    /\ mc_last_attempt # None
    /\ IsErr(McLastResult)
    /\ McLastResult.err.kind = "RateLimitExceeded"
    /\ Len(mc_sent) = 2
    /\ max_retries = 3
    /\ mc_pc = "done"

\* C6: when the called method has a registered endpoint with allow_retries
\* false, the call makes one transport attempt at most and, once it has made
\* it, is over; a 500 answer is returned as ServerError whatever the
\* client's max_retries.
C6_RetriesDisabledOneAttempt ==
    (mc_method # None /\ CalledEndpoint # None /\ ~CalledEndpoint.some.allow_retries)
        => /\ Len(mc_sent) <= 1
           /\ Len(mc_sent) = 1 => mc_pc = "done"
           /\ (mc_last_attempt # None /\ mc_last_attempt.some.outcome.type = "response"
                 /\ mc_last_attempt.some.outcome.status = 500)
                => mc_result = Err([kind |-> "ServerError", info |-> 500])

C6_Witness ==
    /\ mc_method # None
    /\ CalledEndpoint # None
    /\ ~CalledEndpoint.some.allow_retries
    /\ mc_config.max_retries = 3
    /\ Len(mc_sent) = 1
    /\ mc_result = Err([kind |-> "ServerError", info |-> 500])

\* C7: every transport attempt of one call carries the same URL, headers and
\* body, and the X-Timestamp header is the time the request was built, also
\* on an attempt sent later.
C7_SameRequestOnEveryAttempt ==
    \A i \in 1..Len(mc_sent) :
        /\ mc_sent[i].request = mc_sent[1].request
        /\ mc_sent[i].request = request.some
        /\ mc_sent[i].request.headers.x_timestamp = <<"rfc3339", timestamp.some>>

C7_Witness ==
    /\ Len(mc_sent) >= 3
    /\ mc_sent[3].sent_at > timestamp.some
    /\ mc_sent[3].request.url = <<"http://h", "test_method">>

\* C8: the k-th sleep of a call, the one before attempt k, lasts
\* BaseDelayMs * 2^(k-1); a sleep is always followed by an attempt, so none
\* follows the final attempt or a terminal error.
C8_BackoffDoubles ==
    /\ \A k \in 1..Len(mc_slept) : mc_slept[k] = BaseDelayMs * 2^(k - 1)
    /\ \A k \in 1..(Len(mc_slept) - 1) : mc_slept[k + 1] = 2 * mc_slept[k]
    /\ mc_pc = "attempt" => Len(mc_slept) = Len(mc_sent)
    /\ (mc_pc = "done" /\ Len(mc_sent) > 0) => Len(mc_slept) = Len(mc_sent) - 1

C8_Witness ==
    /\ mc_pc = "done"
    /\ Len(mc_slept) = 3
    /\ Len(mc_sent) = 4

\* C9: the status of a response decides the outcome: 401 Unauthorized, 429
\* RateLimitExceeded, 404 MethodNotFound, any other status outside 200..299
\* ServerError, and a status in 200..299 never ServerError.
C9_StatusMapping ==
    (mc_last_attempt # None /\ mc_last_attempt.some.outcome.type = "response") =>
        LET status == mc_last_attempt.some.outcome.status
        IN  /\ status = 401 => McLastResult = Err([kind |-> "Unauthorized"])
            /\ status = 429 => McLastResult = Err([kind |-> "RateLimitExceeded"])
            /\ status = 404 =>
                 McLastResult = Err([kind |-> "MethodNotFound", info |-> mc_method.some])
            /\ (status \notin {401, 429, 404} /\ status \notin 200..299) =>
                 McLastResult = Err([kind |-> "ServerError", info |-> status])
            /\ status \in 200..299 =>
                 ~(IsErr(McLastResult) /\ McLastResult.err.kind = "ServerError")

(***************************************************************************)
(* Properties of RpcClient.request and execute_with_retry.                 *)
(***************************************************************************)
\* the result of the latest invocation of the wrapped operation
RpcLastResult == rpc_last_attempt.some.result
\* the placeholder of execute_with_retry
RpcPlaceholder == Err([kind |-> "ConnectionError", info |-> "Maximum retries exceeded"])

\* C2: when every invocation fails, the wrapped operation is invoked
\* config.max_retries + 1 times, once when max_retries is 0.
C2_InvokedMaxRetriesPlusOne ==
    (rpc_pc = "done" /\ IsErr(rpc_result))
        => rpc_invocations = rpc_config.max_retries + 1

\* C4: an attempt of request that fails with an RpcError or a ParseError
\* ends the request: it is over and has returned that error.
C4_TerminalErrorNotRetried ==
    (/\ rpc_last_attempt # None
     /\ IsErr(RpcLastResult)
     /\ RpcLastResult.err.kind \in {"RpcError", "ParseError"})
        => /\ rpc_pc = "done"
           /\ rpc_result = RpcLastResult

Malformed(value) == (Get(value, "result") # None) = (Get(value, "error") # None)
\* the result is an error that reports the malformed response
MalformedReported(res) ==
    /\ IsErr(res)
    /\ res.err.kind \in {"MalformedResponse", "ParseError"}

\* C15: a wire response to request or request_with_path that carries both
\* result and error, or neither, yields a malformed-response or parse error:
\* never Ok, never an RpcError made from the error member.
C15_MalformedResponseRejected ==
    /\ (/\ rpc_last_attempt # None
        /\ rpc_last_attempt.some.outcome.type = "json"
        /\ Malformed(rpc_last_attempt.some.outcome.value))
          => MalformedReported(RpcLastResult)
    /\ (/\ path_wire # None
        /\ path_wire.some.type = "json"
        /\ Malformed(path_wire.some.value))
          => MalformedReported(path_result)

\* C16: request returns Ok(v) only when its latest attempt received a wire
\* response without error member whose result is v; an attempt that succeeds
\* ends the request with its result, so it is the only attempt that
\* succeeded, every earlier one failed, and none follows it.
C16_OkIsFirstSuccess ==
    /\ (rpc_pc = "done" /\ IsOk(rpc_result)) =>
          /\ rpc_last_attempt # None
          /\ rpc_last_attempt.some.outcome.type = "json"
          /\ Get(rpc_last_attempt.some.outcome.value, "error") = None
          /\ Get(rpc_last_attempt.some.outcome.value, "result") = Some(rpc_result.ok)
          /\ rpc_invocations = attempts + 1
    /\ (rpc_last_attempt # None /\ IsOk(RpcLastResult)) =>
          /\ rpc_pc = "done"
          /\ rpc_result = RpcLastResult

C16_Witness ==
    /\ rpc_pc = "done"
    /\ rpc_result = Ok(JObj("balance" :> JStr("1000")))
    /\ attempts = 2
    /\ rpc_invocations = 3
    /\ rpc_last_error = Some([kind |-> "ConnectionError", info |-> "send"])

(***************************************************************************)
(* Properties of RpcClient.batch_request.                                  *)
(***************************************************************************)
\* batch_request has returned after the transport answered with an array
ArrayAnswered ==
    /\ batch_pc = "done"
    /\ batch_result # None
    /\ batch_wire.some.type = "array"
\* the elements of the wire response batch_request received
WireElements == batch_wire.some.elements
\* the positions of the elements that carry an error member
ErrorPositions ==
    {i \in 1..Len(WireElements) :
        WireElements[i].t = "obj" /\ "error" \in DOMAIN WireElements[i].f}
\* the positions of the other elements that carry a result
SuccessPositions ==
    {i \in 1..Len(WireElements) :
        /\ WireElements[i].t = "obj"
        /\ "error" \notin DOMAIN WireElements[i].f
        /\ "result" \in DOMAIN WireElements[i].f}
\* the number of positions of P up to i
Rank(P, i) == Cardinality({k \in P : k <= i})

\* C10: a wire response array, with or without elements that carry an
\* error, makes batch_request return Ok; the elements with an error member
\* give, in order, one RpcErrorDetail each with the element's code, message
\* and id, and the other elements give their results, in order.
C10_PartialFailureIsOk ==
    ArrayAnswered =>
        /\ IsOk(batch_result)
        /\ Len(batch_result.ok.errors) = Cardinality(ErrorPositions)
        /\ Len(batch_result.ok.successes) = Cardinality(SuccessPositions)
        /\ \A i \in ErrorPositions :
              LET el == WireElements[i].f
                  detail == batch_result.ok.errors[Rank(ErrorPositions, i)]
              IN  /\ (el.error.t = "obj" /\ "code" \in DOMAIN el.error.f)
                        => detail.code = el.error.f.code.n
                  /\ (el.error.t = "obj" /\ "message" \in DOMAIN el.error.f)
                        => detail.message = el.error.f.message.s
                  /\ "id" \in DOMAIN el => detail.request_id = Some(el.id.n)
        /\ \A i \in SuccessPositions :
              batch_result.ok.successes[Rank(SuccessPositions, i)] = WireElements[i].f.result

C10_Witness ==
    /\ ArrayAnswered
    /\ Len(batch) = 3
    /\ Len(WireElements) = 3
    /\ ErrorPositions = {2}
    /\ IsOk(batch_result)
    /\ batch_result.ok.successes = <<JNum(1000), JNum(1002)>>
    /\ batch_result.ok.errors =
         <<[code |-> -32602, message |-> "Invalid params", request_id |-> Some(1)]>>

\* the ids of the requests of the batch, as add_request numbers them
BatchIds == {Get(batch[k], "id").some.n : k \in 1..Len(batch)}
\* the request ids the returned error details carry
ErrorIds ==
    {batch_result.ok.errors[k].request_id.some :
        k \in {j \in 1..Len(batch_result.ok.errors) :
                  batch_result.ok.errors[j].request_id # None}}

\* C11: whenever batch_request returns Ok, the successes and the errors
\* together are as many as the requests of the batch, and every error detail
\* carries the id of a request of the batch, no two the same id: this also
\* when the remote answers with fewer or more elements than requests or with
\* an element that has neither result nor error.
C11_EveryRequestAccountedFor ==
    (batch_pc = "done" /\ IsOk(batch_result)) =>
        /\ Len(batch_result.ok.successes) + Len(batch_result.ok.errors) = Len(batch)
        /\ \A k \in 1..Len(batch_result.ok.errors) :
              batch_result.ok.errors[k].request_id # None
        /\ ErrorIds \subseteq BatchIds
        /\ Cardinality(ErrorIds) = Len(batch_result.ok.errors)

\* the wire response answers every request of the batch exactly once, each
\* element carrying an id and either a result or an error
AnswersEveryRequest ==
    /\ ArrayAnswered
    /\ Len(WireElements) = Len(batch)
    /\ \A i \in 1..Len(WireElements) :
          /\ WireElements[i].t = "obj"
          /\ "id" \in DOMAIN WireElements[i].f
          /\ ("result" \in DOMAIN WireElements[i].f) # ("error" \in DOMAIN WireElements[i].f)
    /\ {WireElements[i].f.id.n : i \in 1..Len(WireElements)} = BatchIds
\* the number of positions of P whose element answers a request no later in
\* the batch than the one position i answers
IdRank(P, i) == Cardinality({k \in P : WireElements[k].f.id.n <= WireElements[i].f.id.n})

\* C12: when the remote answers every request of the batch once, in whatever
\* order, the successes are in the order of their requests in the batch and
\* so are the errors.
C12_InputOrderKept ==
    (batch_pc = "done" /\ AnswersEveryRequest) =>
        /\ IsOk(batch_result)
        /\ \A i \in SuccessPositions :
              batch_result.ok.successes[IdRank(SuccessPositions, i)] = WireElements[i].f.result
        /\ \A i \in ErrorPositions :
              batch_result.ok.errors[IdRank(ErrorPositions, i)].request_id
                  = Some(WireElements[i].f.id.n)

\* the transport has been called by the batch call
TransportCalled == batch_sent # <<>>

\* C13: a batch call made with an empty input list, through batch_request,
\* send_batch_request, batch_balance_request or get_balances, returns an
\* empty success sequence and calls the transport not at all.
C13_EmptyBatchShortCircuits ==
    (batch_pc = "done" /\ batch = <<>>) =>
        /\ ~TransportCalled
        /\ batch_call \in {Some("batch_request"), Some("batch_balance_request")}
              => batch_result = Ok([successes |-> <<>>, errors |-> <<>>])
        /\ batch_call = Some("send_batch_request") => send_batch_result = Ok(<<>>)
        /\ batch_call = Some("get_balances") => balances = Ok(<<>>)

\* C14: a batch call on more than MaxBatchRequests requests fails with a
\* ValidationError, the one validate gives, and calls the transport not at
\* all.
C14_OversizedBatchRejected ==
    (batch_pc = "done" /\ Len(batch) > MaxBatchRequests) =>
        /\ ~TransportCalled
        /\ batch_call \in {Some("batch_request"), Some("batch_balance_request")}
              => batch_result = validate(batch)
        /\ batch_call = Some("get_balances") => balances = validate(batch)

(***************************************************************************)
(* Properties of QueryMapCache.                                            *)
(***************************************************************************)
\* the key and the result of the get that has just returned
GotKey == returned.some.key
GotResult == returned.some.result

\* C17: with max_entries >= 1, a get of a key that returns after a set of
\* that key at time t, no later set having overwritten or evicted the key and
\* no refresh having written it, gives the value of that set at every time
\* before t + ttl and None from t + ttl on.
C17_FreshUntilTtl ==
    (/\ returned # None
     /\ cache_config.max_entries >= 1
     /\ written[GotKey] # None
     /\ written[GotKey].some.intact)
        => GotResult = IF now < written[GotKey].some.at + cache_config.ttl
                       THEN Some(written[GotKey].some.value)
                       ELSE None

\* a set holds the entries write lock
SetInProgress == \E c \in Callers : callers[c].op = "set"
\* the step is the insert of a set
SetStep == sets_made' = sets_made + 1
\* the key the set of the step writes
SetKey == callers'[CHOOSE c \in Callers : callers'[c].op = "set"].key
\* the keys the step takes out of the map
Removed == Present(entries) \ Present(entries')

\* C18: whenever no set is in progress the map holds max_entries entries at
\* most, whatever sets, gets and refresh steps came before; and one set takes
\* at most one entry out of the map.
C18_AtMostMaxEntries ==
    /\ [](~SetInProgress => Cardinality(Present(entries)) <= cache_config.max_entries)
    /\ [][SetStep => Cardinality(Removed \cup ({SetKey} \ Present(entries'))) <= 1]_vars

C18_Witness ==
    /\ ~SetInProgress
    /\ cache_config.max_entries = 1
    /\ sets_made = 3
    /\ Cardinality(Present(entries)) = 1
    /\ metrics.refresh_success_count = 1

\* the map of the step's set right after its insert
AfterInsert == Insert(entries, SetKey, NextValue, now, cache_config)
\* every key has been set once at most, no two keys at the same time, and no
\* refresh has written
DistinctKeysIncreasingTimes ==
    /\ Cardinality({k \in CacheKeys : written[k] # None}) = sets_made
    /\ \A j, k \in CacheKeys :
          (j # k /\ written[j] # None /\ written[k] # None)
              => written[j].some.at # written[k].some.at
    /\ metrics.refresh_success_count = 0
    /\ refresh.pc # "write_metrics"
\* the keys set before every other key
FirstInserted ==
    {k \in CacheKeys :
        /\ written[k] # None
        /\ \A j \in CacheKeys : written[j] # None => written[k].some.at <= written[j].some.at}

\* C19: a set whose insert brings the map over max_entries takes out one
\* entry, one whose expires_at is minimal among the entries the map holds
\* after the insert, and a set that does not takes out none; so after
\* max_entries + 1 sets of distinct keys at increasing times the map holds
\* max_entries keys and not the one set first.
C19_EarliestExpiryEvicted ==
    /\ [][SetStep =>
            LET gone == Present(AfterInsert) \ Present(entries')
            IN  /\ Cardinality(gone) =
                     IF Cardinality(Present(AfterInsert)) > cache_config.max_entries
                     THEN 1 ELSE 0
                /\ \A k \in gone, j \in Present(AfterInsert) :
                      AfterInsert[k].some.expires_at <= AfterInsert[j].some.expires_at]_vars
    /\ []((DistinctKeysIncreasingTimes /\ sets_made = cache_config.max_entries + 1)
            => /\ Cardinality(Present(entries)) = cache_config.max_entries
               /\ FirstInserted \cap Present(entries) = {})

C19_Witness ==
    /\ DistinctKeysIncreasingTimes
    /\ cache_config.max_entries = 1
    /\ sets_made = 2
    /\ written["a"] # None /\ written["a"].some.at = 1 /\ ~written["a"].some.intact
    /\ written["b"] # None /\ written["b"].some.at = 2
    /\ Present(entries) = {"b"}
    /\ refresh.pc = "sleeping"

\* C20: however the gets interleave with each other, with sets and with the
\* refresh task, every get that has returned is counted once: hits + misses
\* is the number of gets that returned and hits the number of those that
\* returned a value; a get that finds a stale entry returns None, a miss.
C20_NoLostMetricsUpdate ==
    /\ metrics.hits + metrics.misses = gets_done
    /\ metrics.hits = gets_some
    /\ (/\ returned # None
        /\ entries[GotKey] # None
        /\ entries[GotKey].some.expires_at <= now)
          => GotResult = None

C20_Witness ==
    /\ returned # None
    /\ entries[GotKey] # None
    /\ entries[GotKey].some.expires_at <= now
    /\ GotResult = None
    /\ metrics.misses = 1
    /\ gets_done = 1
    /\ refresh.pc = "drop"
    /\ \E c \in Callers : callers[c].op = "get"

(***************************************************************************)
(* Properties of the background refresh task.                              *)
(***************************************************************************)
\* the step is the write of a refreshed value under the entries write lock
RefreshWriteStep == refresh.pc = "write" /\ refresh'.pc = "write_metrics"
\* the step is the count of a successful refresh
RefreshCountStep == refresh.pc = "write_metrics" /\ refresh'.pc = "loop"

\* C21: when the handler has succeeded for a key that is still in the map,
\* the write of the refresh task makes the entry's value the handler's
\* result and its expires_at the time of the write plus ttl, every other
\* entry left alone; the success counter grows by exactly one for that
\* refresh and at no other step; and a get that finds an entry not yet
\* expired returns that entry's value, so the refreshed one after a refresh.
C21_SuccessfulRefreshReplacesEntry ==
    /\ [][(RefreshWriteStep /\ entries[refresh.key] # None)
            => entries' = [entries EXCEPT ![refresh.key] =
                             Some([value |-> HandlerResult(refresh.handler),
                                   expires_at |-> now' + cache_config.ttl])]]_vars
    /\ [][RefreshCountStep
            => metrics' = [metrics EXCEPT !.refresh_success_count = @ + 1]]_vars
    /\ [][metrics'.refresh_success_count # metrics.refresh_success_count
            => RefreshCountStep]_vars
    /\ []((/\ returned # None
           /\ entries[GotKey] # None
           /\ entries[GotKey].some.expires_at > now)
              => GotResult = Some(entries[GotKey].some.value))

\* a get has returned the value a refresh wrote over the value of a set
C21_Witness ==
    /\ returned # None
    /\ GotResult # None
    /\ written[GotKey] # None
    /\ ~written[GotKey].some.intact
    /\ metrics.refresh_success_count >= 1

\* the step is the failure of the handler for a key
RefreshFailStep == refresh.pc = "handler" /\ refresh'.pc = "loop"

\* C22: when the handler fails for a key, the entries are left as they were
\* and CacheMetrics.refresh_failures grows by exactly one; and a get returns
\* Some(value) of the entry it finds or None, never the failure.
C22_FailedRefreshCounted ==
    /\ [][RefreshFailStep
            => /\ entries' = entries
               /\ metrics'.refresh_failures = metrics.refresh_failures + 1]_vars
    /\ [](returned # None
            => \/ GotResult = None
               \/ /\ entries[GotKey] # None
                  /\ GotResult = Some(entries[GotKey].some.value))

\* the step is a step of a get: its read of the map or its return
GetStep == \E c \in Callers : (callers[c].op = "get") # (callers'[c].op = "get")

\* C23: a get of a key that returns after an earlier get of the same key, no
\* set of that key between the two, the entry still in the map and the
\* second get before the end of the ttl window of the entry's set, returns
\* what the earlier get returned; and no step of a get calls the refresh
\* handler or moves the refresh task.
C23_RepeatedGetSameValue ==
    /\ [][(/\ returned' # None
           /\ last_got # None
           /\ last_got.some.key = returned'.some.key
           /\ written[last_got.some.key] # None
           /\ now' < written[last_got.some.key].some.at + cache_config.ttl
           /\ entries[last_got.some.key] # None)
              => returned'.some.result = last_got.some.result]_vars
    /\ [][GetStep => UNCHANGED <<refresh, refresh_handler, entries>>]_vars

\* the refresh task has called the handler for a key of its scan
HandlerInvoked == refresh.pc \in {"handler", "write", "write_metrics"}

\* C27: every call of the handler within one scan goes to the handler that
\* was registered when the scan began; a handler installed while the scan is
\* in progress is first used by the next scan.
C27_HandlerFixedForScan ==
    HandlerInvoked => refresh.scan_handler = Some(refresh.handler)

\* the entry of key k is stale while a handler is registered and the refresh
\* task sleeps towards a scan within the bounds of time and of refreshes
AwaitsRefresh(k) ==
    /\ refresh.pc = "sleeping"
    /\ refresh.wake_at <= MaxTime
    /\ metrics.refresh_success_count + metrics.refresh_error_count < MaxRefreshes
    /\ refresh_handler # None
    /\ entries[k] # None
    /\ entries[k].some.expires_at <= now

\* the key k was evicted, or its entry is fresh: by a set, or with a
\* handler's value
RefreshedOrGone(k) ==
    \/ entries[k] = None
    \/ /\ entries[k].some.expires_at > now
       /\ \/ written[k] # None /\ written[k].some.intact
          \/ \E h \in Handlers : entries[k].some.value = HandlerResult(h)

\* C26: with the refresh task started, a handler registered and no handler
\* call failing, every stale entry that no set evicts or overwrites becomes
\* fresh again with the handler's value, under fair scheduling of the refresh
\* task, of time and of the calls that hold a lock.
C26_StaleEntryEventuallyFresh ==
    \A k \in CacheKeys : AwaitsRefresh(k) ~> RefreshedOrGone(k)

\* an entry set by a caller is fresh again with a handler's value
C26_Witness ==
    \E k \in CacheKeys :
        /\ entries[k] # None
        /\ written[k] # None
        /\ entries[k].some.expires_at > now
        /\ \E h \in Handlers : entries[k].some.value = HandlerResult(h)

(***************************************************************************)
(* Properties of the two batch entry points and of BatchRequest.           *)
(***************************************************************************)
\* the call has ended on a wire response that is an array
ArrayReceived ==
    /\ batch_pc = "done"
    /\ batch_wire # None
    /\ batch_wire.some.type = "array"
\* what batch_request returns for the wire response of the state: the result
\* of the call where the call went through batch_request
OfBatchRequest ==
    IF batch_call = Some("send_batch_request")
    THEN BatchRequestResult(batch_wire.some) ELSE batch_result
\* what send_batch_request returns for the wire response of the state
OfSendBatchRequest ==
    IF batch_call = Some("send_batch_request")
    THEN send_batch_result ELSE SendBatchResult(batch_wire.some)

\* C28: for every wire response array, batch_request returns Ok exactly when
\* send_batch_request returns Ok, and then the two return the same results.
C28_SamePartialFailurePolicy ==
    ArrayReceived =>
        /\ IsOk(OfBatchRequest) <=> IsOk(OfSendBatchRequest)
        /\ IsOk(OfBatchRequest) => OfBatchRequest.ok.successes = OfSendBatchRequest.ok

\* the call has ended on a wire response that is no JSON array
NotArrayReceived ==
    /\ batch_pc = "done"
    /\ batch_wire # None
    /\ batch_wire.some.type = "not_array"

\* C29: on a wire response that is no JSON array, batch_request (also when
\* called through batch_balance_request) and send_batch_request return a
\* ParseError, which carries neither successes nor errors.
C29_NotArrayIsParseError ==
    NotArrayReceived =>
        LET result == IF batch_call = Some("send_batch_request")
                      THEN send_batch_result ELSE batch_result
        IN  /\ IsErr(result)
            /\ result.err.kind = "ParseError"

\* send_batch_request has ended on a wire response that is no JSON array
C29_Witness ==
    /\ NotArrayReceived
    /\ batch_call = Some("send_batch_request")
    /\ Len(batch) = 2

\* the batch is as add_request built it
BuiltByAddRequest == batch_pc = "building"

\* C30: in a batch built by add_request alone the i-th request added, counted
\* from 0, carries the id i, so the ids are pairwise distinct and grow by one
\* from 0 in the order of insertion; and add_request appends one request
\* and leaves every request already in the batch as it was.
C30_IdsFollowInsertionOrder ==
    /\ [](BuiltByAddRequest =>
            /\ \A i \in 1..Len(batch) : batch[i].f.id = JNum(i - 1)
            /\ \A i, j \in 1..Len(batch) : i # j => batch[i].f.id # batch[j].f.id)
    /\ [][(BuiltByAddRequest /\ batch_pc' = "building" /\ batch' # batch)
            => /\ Len(batch') = Len(batch) + 1
               /\ \A i \in 1..Len(batch) : batch'[i] = batch[i]]_vars

\* a batch of as many requests as the bound allows, not yet sent
C30_Witness ==
    /\ BuiltByAddRequest
    /\ Len(batch) = MaxBatch

(***************************************************************************)
(* Properties of QueryMap::new.                                            *)
(***************************************************************************)
\* C24: QueryMap::new returns a QueryMap exactly when refresh_interval is at
\* least one second and cache_duration is longer than refresh_interval;
\* for a refresh_interval under one second it returns the ConfigError "at
\* least 1 second" whatever the cache_duration, and otherwise for a
\* cache_duration not longer than refresh_interval the ConfigError "longer
\* than refresh interval"; an error comes with no QueryMap.
C24_NewValidatesConfig ==
    qm_result # None =>
        /\ IsOk(qm_result) <=> (/\ qm_config.refresh_interval >= OneSecond
                                /\ qm_config.cache_duration > qm_config.refresh_interval)
        /\ IsOk(qm_result) => qm_result.ok.config = qm_config
        /\ IsOk(qm_result) \/ IsErr(qm_result)
        /\ qm_config.refresh_interval < OneSecond
              => qm_result = Err([kind |-> "ConfigError",
                                  info |-> "Refresh interval must be at least 1 second"])
        /\ (/\ qm_config.refresh_interval >= OneSecond
            /\ qm_config.cache_duration <= qm_config.refresh_interval)
              => qm_result =
                    Err([kind |-> "ConfigError",
                         info |-> "Cache duration must be longer than refresh interval"])

\* the configuration of the test, 10 s and 5 s, was turned down
C24_Witness ==
    /\ qm_config = [refresh_interval |-> 10000, cache_duration |-> 5000]
    /\ qm_result # None
    /\ IsErr(qm_result)

(***************************************************************************)
(* Properties of WalletClient::batch_transfer.                             *)
(***************************************************************************)
\* the transfer has a sender or a receiver address that does not start with
\* "cmx1", an amount of 0 or a denomination other than COMAI
BadTransfer(transfer) ==
    \/ ~StartsWith(transfer.from, Cmx1)
    \/ ~StartsWith(transfer.to, Cmx1)
    \/ transfer.amount = 0
    \/ transfer.denom # "COMAI"

\* the list is empty, longer than 100 or holds a bad transfer
BadTransferList ==
    \/ Len(transfers) = 0
    \/ Len(transfers) > 100
    \/ \E i \in 1..Len(transfers) : BadTransfer(transfers[i])

\* C25: batch_transfer on an empty list, on more than 100 transfers or on a
\* list with a bad transfer returns a ValidationError and hands nothing to
\* the RPC client; the RPC client is called only for a list in which every
\* transfer is valid, and then once.
C25_InvalidTransfersNeverSent ==
    wallet_result # None =>
        /\ BadTransferList
              => /\ IsErr(wallet_result)
                 /\ wallet_result.err.kind = "ValidationError"
                 /\ wallet_sent = <<>>
        /\ ~BadTransferList => wallet_sent = <<transfers>>

\* a list whose second transfer alone is bad, in its denomination alone, was
\* turned down
C25_Witness ==
    /\ wallet_result # None
    /\ IsErr(wallet_result)
    /\ wallet_sent = <<>>
    /\ Len(transfers) = 2
    /\ ~BadTransfer(transfers[1])
    /\ transfers[2] = [transfers[1] EXCEPT !.denom = "INVALID"]

(***************************************************************************)
(* Properties of the backoff of execute_with_retry.                        *)
(***************************************************************************)
\* C31: the k-th delay execute_with_retry sleeps, the one before attempt k
\* with the initial attempt counted as 0, is BaseDelayMs * 2^(k-1), the delay
\* ModuleClient.call sleeps before its attempt k; and when the call has
\* returned, one delay was slept between any two attempts and none after the
\* last.
C31_RpcBackoffSchedule ==
    /\ \A k \in 1..Len(rpc_slept) :
          /\ rpc_slept[k] = BaseDelayMs * 2^(k - 1)
          /\ rpc_slept[k] = calculate_backoff(k - 1)
    /\ (rpc_pc = "done" /\ rpc_invocations >= 1 /\ path_result = None)
          => Len(rpc_slept) = rpc_invocations - 1

(***************************************************************************)
(* Properties of the cache's metrics and of its frame.                     *)
(***************************************************************************)
\* C32: in every state in which no set is in progress, so after every set
\* that has returned, current_entries is the number of entries in the map;
\* and no step lowers hits, misses or a refresh counter.
C32_MetricsReflectCache ==
    /\ [](~SetInProgress => metrics.current_entries = Cardinality(Present(entries)))
    /\ [][/\ metrics'.hits >= metrics.hits
          /\ metrics'.misses >= metrics.misses
          /\ metrics'.refresh_failures >= metrics.refresh_failures
          /\ metrics'.refresh_success_count >= metrics.refresh_success_count
          /\ metrics'.refresh_error_count >= metrics.refresh_error_count]_vars

\* three sets have returned on a cache of one entry
C32_Witness ==
    /\ ~SetInProgress
    /\ sets_made = 3
    /\ metrics.current_entries = 1
    /\ Cardinality(Present(entries)) = 1

\* the step is a step of the refresh task
RefreshStep == refresh' # refresh

\* C33: a step of the refresh task taken while no handler is registered,
\* whether the scan, the release of the lock, the passing over a key or the
\* return to sleep, leaves every entry, the set of keys and every metric as
\* they were.
C33_NoHandlerNoEffect ==
    [][(RefreshStep /\ refresh_handler = None) => UNCHANGED <<entries, metrics>>]_vars

\* with no handler the task has passed over the first of two stale keys
C33_Witness ==
    /\ refresh_handler = None
    /\ refresh.pc = "loop"
    /\ Len(refresh.keys_to_refresh) = 1
    /\ \A k \in CacheKeys : entries[k] # None /\ entries[k].some.expires_at <= now
    /\ entries["a"].some.expires_at = entries["b"].some.expires_at

\* C34: no step of get changes the entry map, whatever the key; in
\* particular the entry a get has just read, stale or fresh, is in the map
\* with the same value and expires_at when the get returns.
C34_GetLeavesEntries ==
    /\ [][GetStep => entries' = entries]_vars
    /\ [][(returned' # None /\ entries[returned'.some.key] # None)
             => /\ entries'[returned'.some.key] # None
                /\ entries'[returned'.some.key].some.value
                      = entries[returned'.some.key].some.value
                /\ entries'[returned'.some.key].some.expires_at
                      = entries[returned'.some.key].some.expires_at]_vars

\* a get has returned None for an entry past its expires_at, and the entry
\* is still in the map
C34_Witness ==
    /\ returned # None
    /\ GotResult = None
    /\ entries[GotKey] # None
    /\ entries[GotKey].some.expires_at <= now

\* C35: the configuration of every cache QueryMapCache::new has built has a
\* refresh_interval of at least one second and a ttl above its
\* refresh_interval (durations in seconds).
C35_CacheConfigWithinBounds ==
    /\ cache_config.refresh_interval >= 1
    /\ cache_config.ttl > cache_config.refresh_interval

\* C37: no step of the refresh task changes the set of keys: a key that has
\* left the map between the scan and the write of its handler's value is not
\* put back, and after a step of the task the map holds no more entries than
\* before it.
C37_RefreshKeepsKeys ==
    /\ [][RefreshStep => Present(entries') = Present(entries)]_vars
    /\ [][(RefreshWriteStep /\ entries[refresh.key] = None)
             => entries'[refresh.key] = None]_vars
    /\ [][RefreshStep
             => Cardinality(Present(entries')) <= Cardinality(Present(entries))]_vars

\* the task has come to its write for a key that was evicted after the scan,
\* and the key is still out of the map
C37_Witness ==
    /\ refresh.pc = "write_metrics"
    /\ entries[refresh.key] = None
    /\ Cardinality(Present(entries)) = cache_config.max_entries

\* C39: the success counter grows only by a refresh that replaced an entry:
\* every step that adds to refresh_success_count completes a write that
\* found its key in the map, so a refresh whose key was evicted before the
\* write is not counted.
C39_SuccessCountsActualRefreshes ==
    [][metrics'.refresh_success_count # metrics.refresh_success_count
          => /\ metrics'.refresh_success_count = metrics.refresh_success_count + 1
             /\ entries[refresh.key] # None]_vars

\* C38: in a cache of at least one entry the insert of set(key, v) leaves key
\* in the map with value v, whichever entry it evicts, also when the map is
\* full and holds an entry of the same expires_at; the map is not touched
\* between the insert and the return of the set.
C38_SetKeepsOwnKey ==
    /\ [][(SetStep /\ cache_config.max_entries >= 1)
             => /\ entries'[SetKey] # None
                /\ entries'[SetKey].some.value = NextValue]_vars
    /\ [][(\E c \in Callers : callers[c].op = "set" /\ callers'[c].op = "idle")
             => entries' = entries]_vars

\* a call or the refresh task holds a lock or waits for one
LockBusy ==
    \/ \E c \in Callers : callers[c].op # "idle"
    \/ refresh.pc \in {"drop", "handler", "write", "write_metrics"}
\* whoever holds a lock can take its next step, and whoever waits for a lock
\* waits for a holder that can: a call that holds the entries lock gets the
\* metrics lock, the task that holds the refresh_handler lock gets the
\* handler's answer and, with the entries lock, the metrics lock, and the
\* task waits for the entries lock only while a call holds it
LockProgress ==
    /\ \A c \in Callers :
          /\ callers[c].op = "set" => ENABLED set_count(c)
          /\ callers[c].op = "get" => ENABLED get_return(c)
    /\ refresh.pc = "handler" => ENABLED refresh_fetched
    /\ refresh.pc = "write_metrics" => ENABLED refresh_count
    /\ refresh.pc = "write"
          => (ENABLED refresh_write \/ \E c \in Callers : callers[c].op # "idle")
    /\ refresh.pc = "drop"
          => (ENABLED refresh_drop \/ \E c \in Callers : callers[c].op = "set")

WaitTimeout == Err([kind |-> "RequestTimeout", info |-> "Transaction wait timeout"])
\* the call is between its start and its return
Waiting == wait.pc \in {"poll", "sleep"}
\* the state read from the answer to the latest poll
LastPolled == TxstateOf(wait.answer.some.ok)

\* C40: wait_for_transaction returns Ok(state) only with the state of its
\* latest poll, and that state is Success or Failed; a poll that fails ends
\* the call at once with the poll's error; when the loop condition finds the
\* deadline reached the call returns RequestTimeout, which it returns either
\* before any poll or after a poll that gave Pending or NotFound; and every
\* call that has begun returns.
C40_WaitForTransaction ==
    /\ []((wait_result # None /\ IsOk(wait_result))
            => /\ wait_result.ok.state \in {"Success", "Failed"}
               /\ wait.answer # None
               /\ IsOk(wait.answer.some)
               /\ wait_result.ok.state = LastPolled
               /\ wait_result.ok.hash = TxHash)
    /\ [][(wait.pc = "poll" /\ IsErr(wait'.answer.some))
            => /\ wait'.pc = "done"
               /\ wait_result' = wait'.answer.some
               /\ wait'.polls = wait.polls + 1]_vars
    /\ [][(wait.pc = "sleep" /\ wait'.elapsed >= wait.timeout)
            => (wait'.pc = "done" /\ wait_result' = WaitTimeout)]_vars
    /\ []((wait.pc = "done" /\ wait_result = WaitTimeout /\ wait.polls > 0
              /\ IsOk(wait.answer.some))
            => (wait.elapsed >= wait.timeout /\ LastPolled \in {"Pending", "NotFound"}))
    /\ [](wait.pc = "done" <=> wait_result # None)
    /\ Waiting ~> (wait.pc = "done")

\* the call has returned RequestTimeout after two polls that found the
\* transaction pending
C40_Witness ==
    /\ wait.pc = "done"
    /\ wait_result = WaitTimeout
    /\ wait.polls = 2
    /\ IsOk(wait.answer.some)
    /\ LastPolled = "Pending"

====
